---------------------------- MODULE Spec2Model ----------------------------
(***************************************************************************)
(* Model of the Keboola MCP server's service-client layer                  *)
(* (keboola_mcp_server/client.py) and of the component tools composed on  *)
(* top of it (keboola_mcp_server/tools/components/tools.py).               *)
(*                                                                         *)
(* Strings that the code takes apart (URLs) are sequences of tokens; JSON  *)
(* documents on the wire are body texts that ParseJson decodes.            *)
(* Three specifications share the variables:                               *)
(*   Spec        concurrent tool invocations on the asyncio event loop     *)
(*   ClientSpec  one call at a time to a raw / Job-Queue client            *)
(*   FacadeSpec  KeboolaClient.__init__ applied to a connection URL        *)
(***************************************************************************)
EXTENDS Integers, Sequences, FiniteSets, TLC

VARIABLES
    state,      \* ctx.session.state: STATE_KEY -> the KeboolaClient facade
    tasks,      \* the tool invocations (coroutines) of the event loop
    remote,     \* upstream: the configurations created by accepted POSTs
    blocking,   \* the task holding the event loop inside a synchronous call, or 0
    call,       \* ClientSpec: the client call being made
    ctor        \* FacadeSpec: the constructor's arguments and outcome

vars == <<state, tasks, remote, blocking, call, ctor>>

---------------------------------------------------------------------------
(* Bounds of the model *)

NumTasks == 2
MaxUrlLen == 3

---------------------------------------------------------------------------
(* Python values: None, str, int and list[str], under one record shape *)

PyNone == [tag |-> "None", s |-> "", n |-> 0, l |-> <<>>]

PyStr(x) == [tag |-> "str", s |-> x, n |-> 0, l |-> <<>>]

PyInt(i) == [tag |-> "int", s |-> "", n |-> i, l |-> <<>>]

PyList(xs) == [tag |-> "list", s |-> "", n |-> 0, l |-> xs]

\* v is not None
IsNotNone(v) == v.tag # "None"

\* bool(v) of a Python value
PyTruthy(v) ==
    CASE v.tag = "None" -> FALSE
      [] v.tag = "str" -> v.s # ""
      [] v.tag = "int" -> v.n # 0
      [] v.tag = "list" -> v.l # <<>>

---------------------------------------------------------------------------
(* JSON on the wire.  A body text decodes to a value                        *)
(* [type, keys, items]: an object with its keys or a list with its length. *)

NotJsonBody == ""
EmptyListBody == "[]"
EmptyObjectBody == "{}"
ListBody == "[{...}]"
DocBody == "{doc}"

\* The answers of the AI service to a documentation question: with its text, with
\* its text and its source URLs, and with the source URLs alone
TextBody == "{text}"
TextSourcesBody == "{text,sourceUrls}"
SourcesBody == "{sourceUrls}"

\* A bucket as the Storage API describes it
BucketBody == "{bucket}"

Bodies == {NotJsonBody, EmptyListBody, EmptyObjectBody, ListBody, DocBody}

\* The keys of a well-formed upstream document (a component, a configuration).
DocKeys == {"id", "name", "description", "configuration"}

JsonList(k) == [type |-> "list", keys |-> {}, items |-> k]

JsonObject(ks) == [type |-> "object", keys |-> ks, items |-> 0]

JsonNothing == [type |-> "nothing", keys |-> {}, items |-> 0]

IsJson(body) == body # NotJsonBody

\* response.json()
ParseJson(body) ==
    CASE body = EmptyListBody -> JsonList(0)
      [] body = EmptyObjectBody -> JsonObject({})
      [] body = ListBody -> JsonList(1)
      [] body = DocBody -> JsonObject(DocKeys)
      [] body = TextBody -> JsonObject({"text"})
      [] body = TextSourcesBody -> JsonObject({"text", "sourceUrls"})
      [] body = SourcesBody -> JsonObject({"sourceUrls"})
      [] body = BucketBody -> JsonObject({"id", "name", "created", "stage"})
      [] OTHER -> JsonNothing

\* bool(v) of a decoded JSON value
JsonTruthy(v) ==
    \/ v.type = "list" /\ v.items > 0
    \/ v.type = "object" /\ v.keys # {}

---------------------------------------------------------------------------
(* Outcomes of a call: a returned value or a raised exception *)

Returned(v) == [kind |-> "return", exc |-> "", status |-> 0, value |-> v]

Raised(e, st) == [kind |-> "raise", exc |-> e, status |-> st, value |-> JsonNothing]

NoOutcome == [kind |-> "none", exc |-> "", status |-> 0, value |-> JsonNothing]


---------------------------------------------------------------------------
(* KeboolaClient: the facade and the derivation of the service roots *)

STATE_KEY == "sapi_client"
PREFIX_STORAGE_API_URL == "connection."
PREFIX_QUEUE_API_URL == "https://queue."
PREFIX_AISERVICE_API_URL == "https://ai."

\* The tokens connection URLs are made of, and the URLs of the model.
UrlTokens == {"https://", "http://", "connection.", "eu.", "keboola.com"}

Urls == UNION {[1..n -> UrlTokens] : n \in 0..MaxUrlLen}

ApiTokens == {"token-A", "token-B"}

DefaultStorageApiUrl == <<"https://", "connection.", "keboola.com">>

\* storage_api_url.startswith(('http://', 'https://'))
StartsWithScheme(url) == Len(url) > 0 /\ url[1] \in {"http://", "https://"}

Contains(s, sep) == \E i \in 1..Len(s) : s[i] = sep

FirstIndex(s, sep) == CHOOSE i \in 1..Len(s) : s[i] = sep /\ \A j \in 1..(i - 1) : s[j] # sep

\* str.split(sep): the pieces between the occurrences of sep, left to right
RECURSIVE Split(_, _)
Split(s, sep) ==
    IF ~Contains(s, sep) THEN <<s>>
    ELSE LET i == FirstIndex(s, sep)
         IN <<SubSeq(s, 1, i - 1)>> \o Split(SubSeq(s, i + 1, Len(s)), sep)

\* MergeHeaders where the left operand wins
MergeHeaders_LeftWins(a, b) ==
    [k \in (DOMAIN a) \cup (DOMAIN b) |-> IF k \in DOMAIN a THEN a[k] ELSE b[k]]

\* dict | dict: the right operand wins
MergeHeaders(a, b) ==
    [k \in (DOMAIN a) \cup (DOMAIN b) |-> IF k \in DOMAIN b THEN b[k] ELSE a[k]]

NoHeaders == [k \in {} |-> ""]

DefaultHeaders(api_token) ==
    [k \in {"X-StorageApi-Token", "Content-Type", "Accept-encoding"} |->
        CASE k = "X-StorageApi-Token" -> api_token
          [] k = "Content-Type" -> "application/json"
          [] k = "Accept-encoding" -> "gzip"]

\* RawKeboolaClient.__init__ with headers=None
RawKeboolaClient(base_api_url, api_token) ==
    [base_api_url |-> base_api_url, headers |-> DefaultHeaders(api_token)]

\* kbcstorage Client(root_url, token): the synchronous SDK handle
SyncStorageClient(root_url, token) ==
    [root_url |-> root_url, token |-> token, branch_id |-> "default"]

\* AsyncStorageClient.create with version 'v2'
AsyncStorageClientCreate(root_url, token) ==
    RawKeboolaClient(root_url \o <<"/v2/storage">>, token)

JobsQueueClientCreate(root_url, token) == RawKeboolaClient(root_url, token)

AIServiceClientCreate(root_url, token) == RawKeboolaClient(root_url, token)

\* NormalizeUrl that knows https:// only
NormalizeUrl_HttpsOnly(url) ==
    IF Len(url) > 0 /\ url[1] = "https://" THEN url ELSE <<"https://">> \o url

\* ... if not startswith(...): the URL with a scheme
NormalizeUrl(url) == IF StartsWithScheme(url) THEN url ELSE <<"https://">> \o url

\* f'{prefix}{storage_api_url.split(marker)[1]}'; Python's [1] is the second piece
DeriveRoot(prefix, storage_api_url) ==
    <<prefix>> \o Split(storage_api_url, PREFIX_STORAGE_API_URL)[2]

\* KeboolaClientInit taking the last piece of the split ([-1]) for the derived roots
KeboolaClientInit_LastPiece(storage_api_token, url) ==
    LET storage_api_url == NormalizeUrl(url)
        pieces == Split(storage_api_url, PREFIX_STORAGE_API_URL)
        rest == pieces[Len(pieces)]
    IN [exc |-> "",
        facade |-> <<[
            token |-> storage_api_token,
            storage_client_sync |-> SyncStorageClient(storage_api_url, storage_api_token),
            storage_client |-> AsyncStorageClientCreate(storage_api_url, storage_api_token),
            jobs_queue_client |->
                JobsQueueClientCreate(<<PREFIX_QUEUE_API_URL>> \o rest, storage_api_token),
            ai_service_client |->
                AIServiceClientCreate(<<PREFIX_AISERVICE_API_URL>> \o rest,
                                      storage_api_token)]>>]

\* KeboolaClient.__init__: the exception raised, or the facade built
KeboolaClientInit(storage_api_token, url) ==
    LET storage_api_url == NormalizeUrl(url)
        pieces == Split(storage_api_url, PREFIX_STORAGE_API_URL)
    IN IF Len(pieces) < 2
       THEN [exc |-> "IndexError", facade |-> <<>>]
       ELSE [exc |-> "",
             facade |-> <<[
                token |-> storage_api_token,
                storage_client_sync |-> SyncStorageClient(storage_api_url, storage_api_token),
                storage_client |-> AsyncStorageClientCreate(storage_api_url, storage_api_token),
                jobs_queue_client |->
                    JobsQueueClientCreate(DeriveRoot(PREFIX_QUEUE_API_URL, storage_api_url),
                                          storage_api_token),
                ai_service_client |->
                    AIServiceClientCreate(DeriveRoot(PREFIX_AISERVICE_API_URL, storage_api_url),
                                          storage_api_token)]>>]

\* KeboolaClient.from_state
FromState(st) == st[STATE_KEY]

---------------------------------------------------------------------------
(* RawKeboolaClient: the four verbs.  An optional dict argument is <<>>    *)
(* (None) or <<m>>; a request is what httpx is asked to send.              *)

EmptyMap == [k \in {} |-> PyNone]

\* d or {} of an optional dict
OrEmpty(d) == IF d = <<>> THEN EmptyMap ELSE d[1]

Url(client, endpoint) == client.base_api_url \o <<"/">> \o endpoint

\* RawGet sending its parameters in the body of a POST
RawGet_Posting(client, endpoint, params, headers) ==
    [method |-> "POST", url |-> Url(client, endpoint),
     headers |-> MergeHeaders(client.headers, OrEmpty(headers)),
     params |-> <<>>, json |-> params, data |-> <<>>]

\* RawKeboolaClient.get up to the await: client.get(url, headers=, params=)
RawGet(client, endpoint, params, headers) ==
    [method |-> "GET", url |-> Url(client, endpoint),
     headers |-> MergeHeaders(client.headers, OrEmpty(headers)),
     params |-> params, json |-> <<>>, data |-> <<>>]

\* RawKeboolaClient.post up to the await: client.post(url, headers=, json=data or {})
RawPost(client, endpoint, data, headers) ==
    [method |-> "POST", url |-> Url(client, endpoint),
     headers |-> MergeHeaders(client.headers, OrEmpty(headers)),
     params |-> <<>>, json |-> <<OrEmpty(data)>>, data |-> <<>>]

\* RawKeboolaClient.put up to the await: client.put(url, headers=, data=data or {})
RawPut(client, endpoint, data, headers) ==
    [method |-> "PUT", url |-> Url(client, endpoint),
     headers |-> MergeHeaders(client.headers, OrEmpty(headers)),
     params |-> <<>>, json |-> <<>>, data |-> <<OrEmpty(data)>>]

\* RawKeboolaClient.delete up to the await: client.delete(url, headers=)
RawDelete(client, endpoint, headers) ==
    [method |-> "DELETE", url |-> Url(client, endpoint),
     headers |-> MergeHeaders(client.headers, OrEmpty(headers)),
     params |-> <<>>, json |-> <<>>, data |-> <<>>]

\* httpx Response.is_success
IsSuccess(status) == status \in 200..299

\* RawResult with raise_for_status() only for the server errors
RawResult_ServerErrorsOnly(response) ==
    IF response.status >= 500 THEN Raised("HTTPStatusError", response.status)
    ELSE IF ~IsJson(response.body) THEN Raised("JSONDecodeError", 0)
    ELSE Returned(ParseJson(response.body))

\* RawResult with a 404 turned into an empty result
RawResult_NotFoundIsEmpty(response) ==
    IF response.status = 404 THEN Returned(JsonNothing)
    ELSE IF ~IsSuccess(response.status) THEN Raised("HTTPStatusError", response.status)
    ELSE IF ~IsJson(response.body) THEN Raised("JSONDecodeError", 0)
    ELSE Returned(ParseJson(response.body))

\* response.raise_for_status(); return response.json()
RawResult(response) ==
    IF ~IsSuccess(response.status) THEN Raised("HTTPStatusError", response.status)
    ELSE IF ~IsJson(response.body) THEN Raised("JSONDecodeError", 0)
    ELSE Returned(ParseJson(response.body))

---------------------------------------------------------------------------
(* JobsQueueClient *)

SearchKeys == {"componentId", "configId", "status", "limit", "offset", "sortBy", "sortOrder"}

\* JobsQueueClient.get_job_detail: raw_client.get(endpoint=f'jobs/{job_id}')
GetJobDetailRequest(client, job_id) == RawGet(client, <<"jobs/", job_id>>, <<>>, <<>>)

\* the dict literal of search_jobs_by
SearchParamsLiteral(a) ==
    [k \in SearchKeys |->
        CASE k = "componentId" -> a.component_id
          [] k = "configId" -> a.config_id
          [] k = "status" -> a.status
          [] k = "limit" -> a.limit
          [] k = "offset" -> a.offset
          [] k = "sortBy" -> a.sort_by
          [] k = "sortOrder" -> a.sort_order]

\* DropNone filtering on truthiness: {k: v for ... if v}
DropNone_Falsy(m) == [k \in {x \in DOMAIN m : PyTruthy(m[x])} |-> m[k]]

\* DropNone without the filter
DropNone_Nothing(m) == m

\* {k: v for k, v in params.items() if v is not None}
DropNone(m) == [k \in {x \in DOMAIN m : IsNotNone(m[x])} |-> m[k]]

\* JobsQueueClient._search: raw_client.get(endpoint='search/jobs', params=params)
SearchRequest(client, params) == RawGet(client, <<"search/jobs">>, <<params>>, <<>>)

\* JobsQueueClient.search_jobs_by
SearchJobsByRequest(client, a) == SearchRequest(client, DropNone(SearchParamsLiteral(a)))

\* JobsQueueClient.create_job: raw_client.post(endpoint='jobs', data=payload)
CreateJobRequest(client, component_id, configuration_id) ==
    RawPost(client, <<"jobs">>,
            <<[k \in {"component", "config", "mode"} |->
                CASE k = "component" -> PyStr(component_id)
                  [] k = "config" -> PyStr(configuration_id)
                  [] k = "mode" -> PyStr("run")]>>,
            <<>>)

---------------------------------------------------------------------------
(* ClientSpec: one call at a time to the Job-Queue client of a facade     *)
(* built from the default connection URL, and the upstream's answer.      *)

DefaultLimit == 100
DefaultOffset == 0

\* An argument the caller leaves out: the signature's default applies.
Omitted == [tag |-> "omitted", s |-> "", n |-> 0, l |-> <<>>]

OrDefault(arg, default) == IF arg = Omitted THEN default ELSE arg

\* The signature of search_jobs_by: each argument with its default
SearchJobsByArgs(given) ==
    [component_id |-> OrDefault(given.component_id, PyNone),
     config_id |-> OrDefault(given.config_id, PyNone),
     status |-> OrDefault(given.status, PyNone),
     limit |-> OrDefault(given.limit, PyInt(DefaultLimit)),
     offset |-> OrDefault(given.offset, PyInt(DefaultOffset)),
     sort_by |-> OrDefault(given.sort_by, PyStr("startTime")),
     sort_order |-> OrDefault(given.sort_order, PyStr("desc"))]

\* The arguments callers pass in the model
SearchCalls ==
    [component_id : {Omitted, PyNone, PyStr(""), PyStr("ex-1")},
     config_id : {Omitted, PyStr("cfg-1")},
     status : {Omitted, PyList(<<>>), PyList(<<"success">>)},
     limit : {Omitted, PyInt(10), PyInt(0)},
     offset : {Omitted, PyInt(20)},
     sort_by : {Omitted, PyNone, PyStr("id")},
     sort_order : {Omitted, PyNone, PyStr("asc")}]

JobIds == {"job-1", "job-2"}

Endpoints == {<<"jobs">>, <<"search/jobs">>}

HeaderArgs == {<<>>, <<[k \in {"Accept"} |-> "application/json"]>>,
               <<[k \in {"X-StorageApi-Token"} |-> "token-B"]>>}

DictArgs == {<<>>, <<EmptyMap>>, <<[k \in {"mode"} |-> PyStr("run")]>>}

Statuses == {200, 201, 204, 301, 404, 500}

Responses == [status : Statuses, body : Bodies]

TheClient == KeboolaClientInit("token-A", DefaultStorageApiUrl).facade[1].jobs_queue_client

IdleCall == [op |-> "none", pc |-> "idle", args |-> <<>>, sent |-> <<>>,
             received |-> <<>>, outcome |-> NoOutcome]

Issue(op, args, request) ==
    /\ call.pc = "idle"
    /\ call' = [call EXCEPT !.op = op, !.pc = "await", !.args = args,
                            !.sent = Append(@, request)]
    /\ UNCHANGED <<state, tasks, remote, blocking, ctor>>

CallGet ==
    \E e \in Endpoints, p \in DictArgs, h \in HeaderArgs :
        Issue("get", <<e, p, h>>, RawGet(TheClient, e, p, h))

CallPost ==
    \E e \in Endpoints, d \in DictArgs, h \in HeaderArgs :
        Issue("post", <<e, d, h>>, RawPost(TheClient, e, d, h))

CallPut ==
    \E e \in Endpoints, d \in DictArgs, h \in HeaderArgs :
        Issue("put", <<e, d, h>>, RawPut(TheClient, e, d, h))

CallDelete ==
    \E e \in Endpoints, h \in HeaderArgs :
        Issue("delete", <<e, h>>, RawDelete(TheClient, e, h))

CallGetJobDetail ==
    \E j \in JobIds : Issue("get_job_detail", <<j>>, GetJobDetailRequest(TheClient, j))

CallSearchJobsBy ==
    \E given \in SearchCalls :
        Issue("search_jobs_by", given, SearchJobsByRequest(TheClient, SearchJobsByArgs(given)))

CallCreateJob ==
    \E c \in {"ex-1"}, g \in {"cfg-1"} :
        Issue("create_job", <<c, g>>, CreateJobRequest(TheClient, c, g))

\* The upstream answers the one request; the awaiting verb resumes
ClientRespond ==
    \E r \in Responses :
        /\ call.pc = "await"
        /\ call' = [call EXCEPT !.pc = "done", !.received = Append(@, r),
                                !.outcome = RawResult(r)]
        /\ UNCHANGED <<state, tasks, remote, blocking, ctor>>

ClientNext ==
    \/ CallGet
    \/ CallPost
    \/ CallPut
    \/ CallDelete
    \/ CallGetJobDetail
    \/ CallSearchJobsBy
    \/ CallCreateJob
    \/ ClientRespond

---------------------------------------------------------------------------
(* The component tools: what they send, and how they read the answers *)

TaskIds == 1..NumTasks

ComponentIds == {"keboola.ex-db"}
ConfigurationIds == {"cfg-1", "cfg-2"}

DATA_APP_COMPONENT_ID == "keboola.app-data-app"

\* A request as one entry of an invocation's history: the handle it went through
Via(handle, request) == [via |-> handle] @@ request

\* AIServiceClient.get_component_detail: self.get(endpoint=f'docs/components/{component_id}')
GetComponentDetailRequest(client, component_id) ==
    RawGet(client, <<"docs/components/", component_id>>, <<>>, <<>>)

\* _get_component_details up to its await
GetComponentDetailsRequest(facade, component_id) ==
    Via("ai_service_client", GetComponentDetailRequest(facade.ai_service_client, component_id))

\* Component.model_validate: a component needs its id and name
ComponentValid(v) == v.type = "object" /\ {"id", "name"} \subseteq v.keys

\* _get_component_details from the answer on
GetComponentDetailsResult(response) ==
    LET o == RawResult(response)
    IN IF o.kind = "raise" THEN o
       ELSE IF ~ComponentValid(o.value) THEN Raised("ValidationError", 0)
       ELSE o

\* client.storage_client_sync.configurations.detail(component_id, configuration_id)
ConfigurationDetailRequest(facade, component_id, configuration_id) ==
    Via("storage_client_sync",
        [method |-> "GET",
         url |-> facade.storage_client_sync.root_url
                    \o <<"/v2/storage/components/", component_id, "/configs/", configuration_id>>,
         headers |-> [k \in {"X-StorageApi-Token"} |-> facade.storage_client_sync.token],
         params |-> <<>>, json |-> <<>>, data |-> <<>>])

\* the SDK's answer: requests' raise_for_status(), then json()
SyncResult(response) ==
    IF ~IsSuccess(response.status) THEN Raised("HTTPError", response.status)
    ELSE IF ~IsJson(response.body) THEN Raised("JSONDecodeError", 0)
    ELSE Returned(ParseJson(response.body))

\* f'branch/{branch_id}/components/{component_id}/configs/{configuration_id}/metadata'
MetadataEndpoint(facade, component_id, configuration_id) ==
    <<"branch/", facade.storage_client_sync.branch_id, "/components/", component_id,
      "/configs/", configuration_id, "/metadata">>

\* client.storage_client.get(endpoint): KeboolaServiceClient.get
MetadataRequest(facade, component_id, configuration_id) ==
    Via("storage_client",
        RawGet(facade.storage_client,
               MetadataEndpoint(facade, component_id, configuration_id), <<>>, <<>>))

\* MetadataResult with an empty result taken for a failure
MetadataResult_EmptyIsError(response) ==
    IF RawResult(response).kind = "return" /\ ~JsonTruthy(RawResult(response).value)
    THEN Raised("LookupError", 0)
    ELSE RawResult(response)

\* r_metadata = await client.storage_client.get(endpoint)
MetadataResult(response) == RawResult(response)

\* ComponentConfiguration.model_validate({**raw_configuration, 'component': ...,
\* 'component_id': ..., 'metadata': r_metadata}): the exception raised, or ""
ComponentConfigurationError(raw_configuration, component, metadata) ==
    IF raw_configuration.type # "object" THEN "TypeError"
    ELSE IF ~({"id", "name"} \subseteq raw_configuration.keys) THEN "ValidationError"
    ELSE IF ~(metadata.type = "list" \/ ~JsonTruthy(metadata)) THEN "ValidationError"
    ELSE ""

\* The composite the tool returns
Composite(component_id, raw_configuration, component, metadata) ==
    [component_id |-> component_id, configuration |-> raw_configuration,
     component |-> component, metadata |-> metadata]

\* f'branch/{branch_id}/components/{component_id}/configs'
ConfigsEndpoint(facade, component_id) ==
    <<"branch/", facade.storage_client_sync.branch_id, "/components/", component_id, "/configs">>

\* client.storage_client.post(endpoint, data=...): KeboolaServiceClient.post
CreateConfigurationRequest(facade, component_id, data) ==
    Via("storage_client",
        RawPost(facade.storage_client, ConfigsEndpoint(facade, component_id), <<data>>, <<>>))

IsMutating(request) == request.method \in {"POST", "PUT", "DELETE"}

---------------------------------------------------------------------------
(* Spec: tool invocations as coroutines of one event loop.  A coroutine    *)
(* runs from one await to the next in a single step; a synchronous SDK     *)
(* call keeps the loop (blocking) until its answer is there.               *)

\* The answers of the model: 200 with one of the bodies, or 404
Answers(bodies) ==
    {[status |-> 200, body |-> b] : b \in bodies}
        \cup {[status |-> 404, body |-> EmptyObjectBody]}

\* What the upstream may answer to each kind of request
ComponentAnswers == Answers({NotJsonBody, EmptyObjectBody, DocBody})
ConfigurationAnswers == Answers({NotJsonBody, EmptyObjectBody, DocBody})
MetadataAnswers == Answers({NotJsonBody, EmptyListBody, EmptyObjectBody, ListBody})
CreateAnswers == Answers({NotJsonBody, EmptyObjectBody, DocBody})

IdleTask ==
    [op |-> "none", pc |-> "idle", args |-> <<>>, sent |-> <<>>, received |-> <<>>,
     component |-> <<>>, raw |-> <<>>, metadata |-> <<>>, dialect |-> "",
     generated |-> <<>>, script |-> <<>>, strategy |-> "", result |-> <<>>,
     outcome |-> NoOutcome]

TheFacade == KeboolaClientInit("token-A", DefaultStorageApiUrl).facade[1]

\* The loop can run task t: no other task holds it in a synchronous call
CanRun(t) == blocking = 0

Send(task, request) == [task EXCEPT !.sent = Append(@, request)]

Receive(task, response) == [task EXCEPT !.received = Append(@, response)]

\* An exception leaves the tool
Fail(task, o) == [task EXCEPT !.pc = "failed", !.outcome = o]

---------------------------------------------------------------------------
(* get_component_configuration_details *)

\* GCD_Start with a new facade put under the session key in place of a read
GCD_Start_ReplacingFacade(t) ==
    \E c \in ComponentIds, g \in ConfigurationIds :
        /\ CanRun(t)
        /\ tasks[t].pc = "idle"
        /\ state' = [state EXCEPT ![STATE_KEY] =
                        KeboolaClientInit("token-B", DefaultStorageApiUrl).facade[1]]
        /\ tasks' = [tasks EXCEPT ![t] =
                Send([@ EXCEPT !.op = "get_component_configuration_details",
                               !.pc = "gcd_component",
                               !.args = [component_id |-> c, configuration_id |-> g]],
                     GetComponentDetailsRequest(state'[STATE_KEY], c))]
        /\ UNCHANGED <<remote, blocking, call, ctor>>

\* from_state, then _get_component_details up to its await
GCD_Start(t) ==
    \E c \in ComponentIds, g \in ConfigurationIds :
        /\ CanRun(t)
        /\ tasks[t].pc = "idle"
        /\ LET client == FromState(state)
           IN tasks' = [tasks EXCEPT ![t] =
                Send([@ EXCEPT !.op = "get_component_configuration_details",
                               !.pc = "gcd_component",
                               !.args = [component_id |-> c, configuration_id |-> g]],
                     GetComponentDetailsRequest(client, c))]
        /\ UNCHANGED <<state, remote, blocking, call, ctor>>

\* GCD_Component with the component lookup's failure swallowed
GCD_Component_Swallowing(t) ==
    \E r \in ComponentAnswers :
        /\ CanRun(t)
        /\ tasks[t].pc = "gcd_component"
        /\ tasks' = [tasks EXCEPT ![t] =
                Send([Receive(tasks[t], r) EXCEPT
                            !.component = <<GetComponentDetailsResult(r).value>>,
                            !.pc = "gcd_configuration"],
                     ConfigurationDetailRequest(FromState(state), tasks[t].args.component_id,
                                                tasks[t].args.configuration_id))]
        /\ blocking' = t
        /\ UNCHANGED <<state, remote, call, ctor>>

\* GCD_Component with the configuration and the metadata requested together
GCD_Component_FanningOut(t) ==
    \E r \in ComponentAnswers :
        /\ CanRun(t)
        /\ tasks[t].pc = "gcd_component"
        /\ LET client == FromState(state)
               task == Receive(tasks[t], r)
               o == GetComponentDetailsResult(r)
           IN IF o.kind = "raise"
              THEN /\ tasks' = [tasks EXCEPT ![t] = Fail(task, o)]
                   /\ UNCHANGED blocking
              ELSE /\ tasks' = [tasks EXCEPT ![t] =
                        Send(Send([task EXCEPT !.component = <<o.value>>,
                                               !.pc = "gcd_configuration"],
                                  ConfigurationDetailRequest(client, task.args.component_id,
                                                             task.args.configuration_id)),
                             MetadataRequest(client, task.args.component_id,
                                             task.args.configuration_id))]
                   /\ blocking' = t
        /\ UNCHANGED <<state, remote, call, ctor>>

\* component = ...; then the synchronous configurations.detail is called
GCD_Component(t) ==
    \E r \in ComponentAnswers :
        /\ CanRun(t)
        /\ tasks[t].pc = "gcd_component"
        /\ LET client == FromState(state)
               task == Receive(tasks[t], r)
               o == GetComponentDetailsResult(r)
           IN IF o.kind = "raise"
              THEN /\ tasks' = [tasks EXCEPT ![t] = Fail(task, o)]
                   /\ UNCHANGED blocking
              ELSE /\ tasks' = [tasks EXCEPT ![t] =
                        Send([task EXCEPT !.component = <<o.value>>,
                                          !.pc = "gcd_configuration"],
                             ConfigurationDetailRequest(client, task.args.component_id,
                                                        task.args.configuration_id))]
                   /\ blocking' = t
        /\ UNCHANGED <<state, remote, call, ctor>>

\* raw_configuration = ...; then the metadata GET up to its await
GCD_Configuration(t) ==
    \E r \in ConfigurationAnswers :
        /\ blocking = t
        /\ tasks[t].pc = "gcd_configuration"
        /\ LET client == FromState(state)
               task == Receive(tasks[t], r)
               o == SyncResult(r)
           IN IF o.kind = "raise"
              THEN tasks' = [tasks EXCEPT ![t] = Fail(task, o)]
              ELSE tasks' = [tasks EXCEPT ![t] =
                        Send([task EXCEPT !.raw = <<o.value>>, !.pc = "gcd_metadata"],
                             MetadataRequest(client, task.args.component_id,
                                             task.args.configuration_id))]
        /\ blocking' = 0
        /\ UNCHANGED <<state, remote, call, ctor>>

\* r_metadata = ...; then the composite is validated and returned
GCD_Metadata(t) ==
    \E r \in MetadataAnswers :
        /\ CanRun(t)
        /\ tasks[t].pc = "gcd_metadata"
        /\ LET task == Receive(tasks[t], r)
               o == MetadataResult(r)
               e == ComponentConfigurationError(task.raw[1], task.component[1], o.value)
           IN IF o.kind = "raise"
              THEN tasks' = [tasks EXCEPT ![t] = Fail(task, o)]
              ELSE IF e # ""
              THEN tasks' = [tasks EXCEPT ![t] =
                        Fail([task EXCEPT !.metadata = <<o.value>>], Raised(e, 0))]
              ELSE tasks' = [tasks EXCEPT ![t] =
                        [task EXCEPT !.metadata = <<o.value>>,
                                     !.pc = "done",
                                     !.result = <<Composite(task.args.component_id, task.raw[1],
                                                            task.component[1], o.value)>>,
                                     !.outcome = Returned(JsonNothing)]]
        /\ UNCHANGED <<state, remote, blocking, call, ctor>>

---------------------------------------------------------------------------
(* create_sql_transformation *)

SqlCalls ==
    {[name |-> "demo", description |-> "demo transformation",
      sql_statements |-> <<"CREATE TABLE t1 AS SELECT 1">>, created_table_names |-> <<"t1">>],
     [name |-> "two", description |-> "two statements",
      sql_statements |-> <<"SELECT 1", "SELECT 2">>, created_table_names |-> <<>>]}

\* get_sql_dialect(ctx): the dialect of the workspace, or the reason it raises
DialectAnswers == {"snowflake", "bigquery", "<no workspace>", "<unsupported backend>"}

GetSqlDialectRequest ==
    [via |-> "workspace", method |-> "CALL", url |-> <<"get_sql_dialect">>,
     headers |-> NoHeaders, params |-> <<>>, json |-> <<>>, data |-> <<>>]

GetSqlDialectResult(answer) ==
    IF answer \in {"<no workspace>", "<unsupported backend>"}
    THEN Raised("ValueError", 0) ELSE NoOutcome

\* _get_sql_transformation_id_from_sql_dialect: the two-entry table; "" when it raises
SqlTransformationId(sql_dialect) ==
    CASE sql_dialect = "snowflake" -> "keboola.snowflake-transformation"
      [] sql_dialect = "bigquery" -> "keboola.google-bigquery-transformation"
      [] OTHER -> ""

\* _get_transformation_configuration(statements, transformation_name, output_tables)
\* and its model_dump(): the statements under parameters, the tables under storage.output
GetTransformationConfiguration(statements, transformation_name, output_tables) ==
    [k \in {"parameters.statements", "storage.output.tables"} |->
        IF k = "parameters.statements" THEN PyList(statements) ELSE PyList(output_tables)]

\* SqlTransformationData with the name sent as the description
SqlTransformationData_NameAsDescription(a) ==
    LET payload == GetTransformationConfiguration(a.sql_statements, a.name,
                                                  a.created_table_names)
    IN [k \in {"name", "description", "configuration.parameters.statements",
               "configuration.storage.output.tables"} |->
           CASE k = "name" -> PyStr(a.name)
             [] k = "description" -> PyStr(a.name)
             [] k = "configuration.parameters.statements" -> payload["parameters.statements"]
             [] k = "configuration.storage.output.tables" -> payload["storage.output.tables"]]

\* the data of the POST: name, description and
\* _get_transformation_configuration(...).model_dump() under 'configuration'
SqlTransformationData(a) ==
    LET payload == GetTransformationConfiguration(a.sql_statements, a.name,
                                                  a.created_table_names)
    IN [k \in {"name", "description", "configuration.parameters.statements",
               "configuration.storage.output.tables"} |->
           CASE k = "name" -> PyStr(a.name)
             [] k = "description" -> PyStr(a.description)
             [] k = "configuration.parameters.statements" -> payload["parameters.statements"]
             [] k = "configuration.storage.output.tables" -> payload["storage.output.tables"]]

\* ComponentConfiguration(**new_raw, component_id=..., component=...): the exception, or ""
NewConfigurationError(new_raw, component) ==
    IF new_raw.type # "object" THEN "TypeError"
    ELSE IF ~({"id", "name"} \subseteq new_raw.keys) THEN "ValidationError"
    ELSE ""

\* What the upstream holds after answering a create request
Created(t, component_id, response) ==
    IF IsSuccess(response.status)
    THEN remote \cup {[id |-> t, component_id |-> component_id]}
    ELSE remote

\* OnCreateError with a compensating DELETE of the configuration before the raise
OnCreateError_RollingBack(task, o) ==
    Fail(Send(task, Via("storage_client",
                        RawDelete(TheFacade.storage_client,
                                  ConfigsEndpoint(TheFacade, DATA_APP_COMPONENT_ID), <<>>))),
         o)

\* OnCreateError raising a new error in place of the one caught
OnCreateError_Wrapping(task, o) == Fail(task, Raised("RuntimeError", 0))

\* except Exception as e: LOG.exception(...); raise e: what the handler sends, and raises
OnCreateError(task, o) == Fail(task, o)

\* the statements of the try block after the POST's await, up to the next await
AfterCreate(task, client, component_id, o, next_pc) ==
    IF o.kind = "raise" THEN OnCreateError(task, o)
    ELSE Send([task EXCEPT !.raw = <<o.value>>, !.pc = next_pc],
              GetComponentDetailsRequest(client, component_id))

\* the statements of the try block after _get_component_details' await
AfterComponent(task, component_id, o) ==
    IF o.kind = "raise" THEN OnCreateError(task, o)
    ELSE LET e == NewConfigurationError(task.raw[1], o.value)
         IN IF e # ""
            THEN OnCreateError([task EXCEPT !.component = <<o.value>>], Raised(e, 0))
            ELSE [task EXCEPT !.component = <<o.value>>,
                              !.pc = "done",
                              !.result = <<Composite(component_id, task.raw[1], o.value,
                                                     JsonNothing)>>,
                              !.outcome = Returned(JsonNothing)]

\* sql_dialect = await get_sql_dialect(ctx): up to the await
CST_Start(t) ==
    \E a \in SqlCalls :
        /\ CanRun(t)
        /\ tasks[t].pc = "idle"
        /\ tasks' = [tasks EXCEPT ![t] =
                Send([@ EXCEPT !.op = "create_sql_transformation", !.pc = "cst_dialect",
                               !.args = a],
                     GetSqlDialectRequest)]
        /\ UNCHANGED <<state, remote, blocking, call, ctor>>

\* CST_Dialect with the POST issued whatever the dialect resolution gave
CST_Dialect_PostingAnyway(t) ==
    \E d \in DialectAnswers :
        /\ CanRun(t)
        /\ tasks[t].pc = "cst_dialect"
        /\ tasks' = [tasks EXCEPT ![t] =
                Send([@ EXCEPT !.dialect = d, !.pc = "cst_post"],
                     CreateConfigurationRequest(FromState(state), SqlTransformationId(d),
                                                SqlTransformationData(tasks[t].args)))]
        /\ UNCHANGED <<state, remote, blocking, call, ctor>>

\* the dialect is there: the transformation id, the payload, then the POST up to its await
CST_Dialect(t) ==
    \E d \in DialectAnswers :
        /\ CanRun(t)
        /\ tasks[t].pc = "cst_dialect"
        /\ LET client == FromState(state)
               task == [tasks[t] EXCEPT !.dialect = d]
               o == GetSqlDialectResult(d)
               transformation_id == SqlTransformationId(d)
           IN IF o.kind = "raise"
              THEN tasks' = [tasks EXCEPT ![t] = Fail(task, o)]
              ELSE IF transformation_id = ""
              THEN tasks' = [tasks EXCEPT ![t] = Fail(task, Raised("ValueError", 0))]
              ELSE tasks' = [tasks EXCEPT ![t] =
                        Send([task EXCEPT !.pc = "cst_post"],
                             CreateConfigurationRequest(client, transformation_id,
                                                        SqlTransformationData(task.args)))]
        /\ UNCHANGED <<state, remote, blocking, call, ctor>>

\* the upstream answers the POST
CST_Post(t) ==
    \E r \in CreateAnswers :
        /\ CanRun(t)
        /\ tasks[t].pc = "cst_post"
        /\ LET transformation_id == SqlTransformationId(tasks[t].dialect)
           IN /\ remote' = Created(t, transformation_id, r)
              /\ tasks' = [tasks EXCEPT ![t] =
                    AfterCreate(Receive(tasks[t], r), FromState(state), transformation_id,
                                RawResult(r), "cst_component")]
        /\ UNCHANGED <<state, blocking, call, ctor>>

\* the upstream answers the component-detail GET
CST_Component(t) ==
    \E r \in ComponentAnswers :
        /\ CanRun(t)
        /\ tasks[t].pc = "cst_component"
        /\ tasks' = [tasks EXCEPT ![t] =
                AfterComponent(Receive(tasks[t], r), SqlTransformationId(tasks[t].dialect),
                               GetComponentDetailsResult(r))]
        /\ UNCHANGED <<state, remote, blocking, call, ctor>>

---------------------------------------------------------------------------
(* create_data_app *)

MaxGenLines == 2

DefaultAutoSuspendAfterSeconds == 900

\* script: None (<<>>), an empty list or a list of lines
DataAppCalls ==
    [name : {"Sales"}, description : {"sales dashboard"}, slug : {"sales-app"},
     script : {<<>>, << <<>> >>, << <<"print(1)">> >>,
               << <<"import streamlit as st", "st.write(1)">> >>}]

\* A str is the sequence of its lines ('\n'.join(lines)); '' is one empty line
PyText(lines) == [tag |-> "str", s |-> "<text>", n |-> 0, l |-> lines]

\* The lines of a generated text; <fence> stands for the three backquotes of a code
\* fence, which a TLA+ string cannot hold
GenLines == {"", "  <fence>python", " st.write(1) "}

\* What ctx.generate(prompt) may give back: None, a non-str, or a text
GenerateAnswers ==
    {PyNone, PyInt(42)}
        \cup {PyText(x) : x \in UNION {[1..n -> GenLines] : n \in 1..MaxGenLines}}

GenerateRequest ==
    [via |-> "ctx.generate", method |-> "CALL", url |-> <<"generate">>,
     headers |-> NoHeaders, params |-> <<>>, json |-> <<>>, data |-> <<>>]

\* str.strip()
Strip(line) ==
    CASE line = "  <fence>python" -> "<fence>python"
      [] line = " st.write(1) " -> "st.write(1)"
      [] OTHER -> line

\* line.strip().startswith(fence)
IsFence(stripped) == stripped = "<fence>python"

\* bool(response)
ResponseTruthy(response) ==
    IF response.tag = "str" THEN response.l # <<"">> ELSE PyTruthy(response)

RECURSIVE ScriptLines(_)
\* [line.strip() for line in response.split('\n')
\*  if line.strip() and not line.strip().startswith(fence)]
ScriptLines(lines) ==
    IF lines = <<>> THEN <<>>
    ELSE LET stripped == Strip(Head(lines))
         IN (IF stripped # "" /\ ~IsFence(stripped) THEN <<stripped>> ELSE <<>>)
                \o ScriptLines(Tail(lines))

\* GenerateError that refuses None only
GenerateError_NoneOnly(response) ==
    IF response.tag = "None" THEN "ValueError" ELSE ""

\* _generate_data_app_script from the answer on: the exception, or ""
GenerateError(response) ==
    IF ~ResponseTruthy(response) \/ response.tag # "str" THEN "ValueError" ELSE ""

\* NoScript that takes only None for missing
NoScript_NoneOnly(script) == script = <<>>

\* NoScript that takes every script for missing
NoScript_Always(script) == TRUE

\* if not script
NoScript(script) == script = <<>> \/ script[1] = <<>>

\* the configuration dict of create_data_app, with data_app.model_dump() under 'dataApp'
DataAppData(a, script) ==
    [k \in {"name", "description", "configuration.parameters.size",
            "configuration.parameters.autoSuspendAfterSeconds",
            "configuration.parameters.dataApp.slug",
            "configuration.parameters.dataApp.script",
            "configuration.parameters.id", "configuration.parameters.script",
            "configuration.authorization.app_proxy.auth_rules"} |->
        CASE k = "name" -> PyStr(a.name)
          [] k = "description" -> PyStr(a.description)
          [] k = "configuration.parameters.size" -> PyStr("tiny")
          [] k = "configuration.parameters.autoSuspendAfterSeconds" ->
                PyInt(DefaultAutoSuspendAfterSeconds)
          [] k = "configuration.parameters.dataApp.slug" -> PyStr(a.slug)
          [] k = "configuration.parameters.dataApp.script" -> PyList(script)
          [] k = "configuration.parameters.id" -> PyStr(a.slug)
          [] k = "configuration.parameters.script" -> PyList(script)
          [] k = "configuration.authorization.app_proxy.auth_rules" ->
                PyList(<<"pathPrefix:/">>)]

\* from data_app = DataApp(...) to the POST's await
PostDataApp(task, client, script) ==
    Send([task EXCEPT !.script = script, !.pc = "cda_post"],
         CreateConfigurationRequest(client, DATA_APP_COMPONENT_ID,
                                    DataAppData(task.args, script)))

\* from_state; with no script the generation is awaited, else the POST
CDA_Start(t) ==
    \E a \in DataAppCalls :
        /\ CanRun(t)
        /\ tasks[t].pc = "idle"
        /\ LET client == FromState(state)
               task == [tasks[t] EXCEPT !.op = "create_data_app", !.args = a]
           IN IF NoScript(a.script)
              THEN tasks' = [tasks EXCEPT ![t] =
                        Send([task EXCEPT !.pc = "cda_generate"], GenerateRequest)]
              ELSE tasks' = [tasks EXCEPT ![t] = PostDataApp(task, client, a.script[1])]
        /\ UNCHANGED <<state, remote, blocking, call, ctor>>

\* the generated text is there: the script lines, then the POST up to its await
CDA_Generate(t) ==
    \E g \in GenerateAnswers :
        /\ CanRun(t)
        /\ tasks[t].pc = "cda_generate"
        /\ LET client == FromState(state)
               task == [tasks[t] EXCEPT !.generated = <<g>>]
               e == GenerateError(g)
           IN IF e # ""
              THEN tasks' = [tasks EXCEPT ![t] = Fail(task, Raised(e, 0))]
              ELSE tasks' = [tasks EXCEPT ![t] = PostDataApp(task, client, ScriptLines(g.l))]
        /\ UNCHANGED <<state, remote, blocking, call, ctor>>

\* the upstream answers the POST
CDA_Post(t) ==
    \E r \in CreateAnswers :
        /\ CanRun(t)
        /\ tasks[t].pc = "cda_post"
        /\ remote' = Created(t, DATA_APP_COMPONENT_ID, r)
        /\ tasks' = [tasks EXCEPT ![t] =
                AfterCreate(Receive(tasks[t], r), FromState(state), DATA_APP_COMPONENT_ID,
                            RawResult(r), "cda_component")]
        /\ UNCHANGED <<state, blocking, call, ctor>>

\* the upstream answers the component-detail GET
CDA_Component(t) ==
    \E r \in ComponentAnswers :
        /\ CanRun(t)
        /\ tasks[t].pc = "cda_component"
        /\ tasks' = [tasks EXCEPT ![t] =
                AfterComponent(Receive(tasks[t], r), DATA_APP_COMPONENT_ID,
                               GetComponentDetailsResult(r))]
        /\ UNCHANGED <<state, remote, blocking, call, ctor>>

---------------------------------------------------------------------------
(* retrieve_components_configurations, retrieve_transformations_configurations *)

\* ComponentType, in the order of its declaration
ComponentTypes == <<"application", "extractor", "writer">>

\* component_types and component_ids (transformation_ids) as callers pass them;
\* the default of each is the empty tuple
TypeArgs == {<<>>, <<"extractor">>, <<"writer", "extractor">>}
IdArgs == {<<>>, <<"keboola.ex-db">>, <<"keboola.wr-db", "keboola.ex-db">>}

\* What the upstream may answer to a listing
ListAnswers == Answers({EmptyListBody, ListBody})

\* _handle_component_types: no types stands for all of them
HandleComponentTypes(component_types) ==
    IF component_types = <<>> THEN ComponentTypes ELSE component_types

Range(seq) == {seq[i] : i \in 1..Len(seq)}

\* the listing of the configurations of one component type
ListByTypeRequest(facade, component_type) ==
    Via("storage_client",
        RawGet(facade.storage_client,
               <<"branch/", facade.storage_client_sync.branch_id, "/components">>,
               <<[k \in {"componentType", "include"} |->
                    IF k = "componentType" THEN PyStr(component_type)
                    ELSE PyStr("configuration")]>>,
               <<>>))

\* the fetch of the configurations of one component id
ConfigsByIdRequest(facade, component_id) ==
    Via("storage_client",
        RawGet(facade.storage_client, ConfigsEndpoint(facade, component_id), <<>>, <<>>))

\* _retrieve_components_configurations_by_types: one listing per requested type,
\* in the order the types are declared
ByTypesRequests(facade, component_types) ==
    LET wanted == SelectSeq(ComponentTypes \o <<"transformation">>,
                            LAMBDA x : x \in Range(component_types))
    IN [i \in 1..Len(wanted) |-> ListByTypeRequest(facade, wanted[i])]

\* _retrieve_components_configurations_by_ids: one fetch per id, in the order given
ByIdsRequests(facade, component_ids) ==
    [i \in 1..Len(component_ids) |-> ConfigsByIdRequest(facade, component_ids[i])]

\* RetrieveStrategy where a type filter, when given, wins over the ids
RetrieveStrategy_TypesFirst(component_types, component_ids) ==
    IF component_types # <<>> \/ component_ids = <<>> THEN "by_types" ELSE "by_ids"

\* if not component_ids: ... by types; else: ... by ids
RetrieveStrategy(component_types, component_ids) ==
    IF component_ids = <<>> THEN "by_types" ELSE "by_ids"

\* The requests an invocation makes, one after the other
RetrieveRequests(facade, strategy, component_types, component_ids) ==
    IF strategy = "by_types" THEN ByTypesRequests(facade, component_types)
    ELSE ByIdsRequests(facade, component_ids)

\* The requests of task: those of its strategy, for its arguments
RequestsOf(facade, task) ==
    RetrieveRequests(facade, task.strategy,
                     IF task.op = "retrieve_transformations_configurations"
                     THEN <<"transformation">>
                     ELSE HandleComponentTypes(task.args.component_types),
                     task.args.component_ids)

\* from_state, the choice of the strategy, and the helper up to its first await
StartRetrieval(t, op, args, strategy) ==
    LET task == [tasks[t] EXCEPT !.op = op, !.pc = "rc_fetch", !.args = args,
                                 !.strategy = strategy]
    IN tasks' = [tasks EXCEPT ![t] = Send(task, RequestsOf(FromState(state), task)[1])]

\* retrieve_components_configurations
RCC_Start(t) ==
    \E ts \in TypeArgs, ids \in IdArgs :
        /\ CanRun(t)
        /\ tasks[t].pc = "idle"
        /\ StartRetrieval(t, "retrieve_components_configurations",
                          [component_types |-> ts, component_ids |-> ids],
                          RetrieveStrategy(ts, ids))
        /\ UNCHANGED <<state, remote, blocking, call, ctor>>

\* retrieve_transformations_configurations
RTC_Start(t) ==
    \E ids \in IdArgs :
        /\ CanRun(t)
        /\ tasks[t].pc = "idle"
        /\ StartRetrieval(t, "retrieve_transformations_configurations",
                          [component_types |-> <<>>, component_ids |-> ids],
                          RetrieveStrategy(<<>>, ids))
        /\ UNCHANGED <<state, remote, blocking, call, ctor>>

\* the upstream answers a fetch of the helper: the next fetch, or the list returned
RC_Fetch(t) ==
    \E r \in ListAnswers :
        /\ CanRun(t)
        /\ tasks[t].pc = "rc_fetch"
        /\ LET task == Receive(tasks[t], r)
               o == RawResult(r)
               requests == RequestsOf(FromState(state), task)
               k == Len(task.received)
           IN IF o.kind = "raise"
              THEN tasks' = [tasks EXCEPT ![t] = Fail(task, o)]
              ELSE IF k < Len(requests)
              THEN tasks' = [tasks EXCEPT ![t] = Send(task, requests[k + 1])]
              ELSE tasks' = [tasks EXCEPT ![t] =
                        [task EXCEPT !.pc = "done",
                                     !.result = <<[i \in 1..k |->
                                                    ParseJson(task.received[i].body)]>>,
                                     !.outcome = Returned(JsonNothing)]]
        /\ UNCHANGED <<state, remote, blocking, call, ctor>>

---------------------------------------------------------------------------
(* AIServiceClient.docs_question and the docs_query tool *)

\* raw_client.post(endpoint='docs/question', data={'query': query},
\*                 headers={'Accept': 'application/json'})
DocsQuestionRequest(client, query) ==
    RawPost(client, <<"docs/question">>, <<[k \in {"query"} |-> PyStr(query)]>>,
            <<[k \in {"Accept"} |-> "application/json"]>>)

\* A DocsQuestionResponse; the documents on the wire hold "Use the Storage API."
\* under text and two URLs under sourceUrls
DocsQuestionResponse(text, source_urls) ==
    [type |-> "DocsQuestionResponse", keys |-> {"text", "source_urls"}, items |-> 0,
     text |-> text, source_urls |-> source_urls]

\* DocsQuestionResponseValidate with the source URLs required
DocsQuestionResponseValidate_SourcesRequired(response) ==
    LET v == ParseJson(response.body)
    IN IF v.type # "object" \/ ~({"text", "sourceUrls"} \subseteq v.keys)
       THEN Raised("ValidationError", 0)
       ELSE Returned(DocsQuestionResponse("Use the Storage API.",
                        <<"https://help.keboola.com/storage",
                          "https://developers.keboola.com">>))

\* DocsQuestionResponse.model_validate(response): text is required, source_urls is
\* read under its alias sourceUrls and defaults to an empty list
DocsQuestionResponseValidate(response) ==
    LET v == ParseJson(response.body)
    IN IF v.type # "object" \/ "text" \notin v.keys
       THEN Raised("ValidationError", 0)
       ELSE Returned(DocsQuestionResponse("Use the Storage API.",
                        IF "sourceUrls" \in v.keys
                        THEN <<"https://help.keboola.com/storage",
                               "https://developers.keboola.com">>
                        ELSE <<>>))

\* AIServiceClient.docs_question from the answer on
DocsQuestionResult(response) ==
    IF RawResult(response).kind = "raise" THEN RawResult(response)
    ELSE DocsQuestionResponseValidate(response)

\* DocsAnswer(text=answer.text, source_urls=answer.source_urls)
DocsAnswer(answer) == [text |-> answer.text, source_urls |-> answer.source_urls]

\* docs_query: from_state, then docs_question up to its await
DQ_Start(t) ==
    \E q \in {"How do I create a bucket?"} :
        /\ CanRun(t)
        /\ tasks[t].pc = "idle"
        /\ tasks' = [tasks EXCEPT ![t] =
                Send([@ EXCEPT !.op = "docs_query", !.pc = "dq_answer",
                               !.args = [query |-> q]],
                     Via("ai_service_client",
                         DocsQuestionRequest(FromState(state).ai_service_client, q)))]
        /\ UNCHANGED <<state, remote, blocking, call, ctor>>

\* the upstream answers the POST: the answer is validated and handed back
DQ_Answer(t) ==
    \E r \in Answers({NotJsonBody, EmptyListBody, EmptyObjectBody, TextBody,
                       TextSourcesBody, SourcesBody}) :
        /\ CanRun(t)
        /\ tasks[t].pc = "dq_answer"
        /\ LET task == Receive(tasks[t], r)
               o == DocsQuestionResult(r)
           IN IF o.kind = "raise"
              THEN tasks' = [tasks EXCEPT ![t] = Fail(task, o)]
              ELSE tasks' = [tasks EXCEPT ![t] =
                        [task EXCEPT !.pc = "done", !.raw = <<o.value>>,
                                     !.result = <<DocsAnswer(o.value)>>,
                                     !.outcome = Returned(JsonNothing)]]
        /\ UNCHANGED <<state, remote, blocking, call, ctor>>

---------------------------------------------------------------------------
(* The storage read tools: get_bucket_detail, retrieve_buckets,            *)
(* get_table_detail, retrieve_bucket_tables.  Each calls the synchronous   *)
(* SDK from inside its coroutine.                                          *)

\* The calls in the model, each with the GET the SDK makes for it:
\*   buckets.detail(bucket_id), buckets.list(), tables.detail(table_id),
\*   buckets.list_tables(bucket_id, include=['metadata'])
StorageReadCalls(facade) ==
    LET SyncGet(path, params) ==
            Via("storage_client_sync",
                [method |-> "GET",
                 url |-> facade.storage_client_sync.root_url \o <<"/v2/storage/">> \o path,
                 headers |-> [k \in {"X-StorageApi-Token"} |->
                                facade.storage_client_sync.token],
                 params |-> params, json |-> <<>>, data |-> <<>>])
    IN {[op |-> "get_bucket_detail", id |-> "in.c-main",
         request |-> SyncGet(<<"buckets/", "in.c-main">>, <<>>)],
        [op |-> "retrieve_buckets", id |-> "",
         request |-> SyncGet(<<"buckets">>, <<>>)],
        [op |-> "get_table_detail", id |-> "in.c-main.orders",
         request |-> SyncGet(<<"tables/", "in.c-main.orders">>, <<>>)],
        [op |-> "retrieve_bucket_tables", id |-> "in.c-main",
         request |-> SyncGet(<<"buckets/", "in.c-main", "/tables">>,
                             <<[k \in {"include"} |-> PyStr("metadata")]>>)]}

\* What the rest of a tool raises on the value the SDK gave it, or "":
\*   BucketDetail(**raw_bucket) requires id, name and created;
\*   TableDetail(**raw_table) requires id and name, after raw_table.get('columns', []);
\*   the list tools build one model per element of what they iterate
StorageReadError(op, raw) ==
    CASE op = "get_bucket_detail" ->
            IF raw.type # "object" THEN "TypeError"
            ELSE IF ~({"id", "name", "created"} \subseteq raw.keys) THEN "ValidationError"
            ELSE ""
      [] op = "get_table_detail" ->
            IF raw.type # "object" THEN "AttributeError"
            ELSE IF ~({"id", "name"} \subseteq raw.keys) THEN "ValidationError"
            ELSE ""
      [] OTHER ->
            IF raw.type = "object" /\ raw.keys # {} THEN "TypeError" ELSE ""

\* from_state, then the call of the synchronous SDK: the loop is held until it returns
SR_Start(t) ==
    \E c \in StorageReadCalls(FromState(state)) :
        /\ CanRun(t)
        /\ tasks[t].pc = "idle"
        /\ tasks' = [tasks EXCEPT ![t] =
                Send([@ EXCEPT !.op = c.op, !.pc = "sr_call", !.args = [id |-> c.id]],
                     c.request)]
        /\ blocking' = t
        /\ UNCHANGED <<state, remote, call, ctor>>

\* the synchronous call returns: the tool builds its result and returns, but
\* get_table_detail, having no column to quote, awaits get_table_fqn(raw_table)
SR_Answer(t) ==
    \E r \in Answers({EmptyListBody, EmptyObjectBody, ListBody, DocBody, BucketBody}) :
        /\ blocking = t
        /\ tasks[t].pc = "sr_call"
        /\ LET o == SyncResult(r)
               task == [Receive(tasks[t], r) EXCEPT !.raw = <<o.value>>]
               e == StorageReadError(task.op, o.value)
           IN IF o.kind = "raise"
              THEN tasks' = [tasks EXCEPT ![t] = Fail(Receive(tasks[t], r), o)]
              ELSE IF e = "" /\ task.op # "get_table_detail"
              THEN tasks' = [tasks EXCEPT ![t] =
                        [task EXCEPT !.pc = "done", !.result = <<o.value>>,
                                     !.outcome = Returned(JsonNothing)]]
              ELSE IF task.op # "get_table_detail" \/ e = "AttributeError"
              THEN tasks' = [tasks EXCEPT ![t] = Fail(task, Raised(e, 0))]
              ELSE tasks' = [tasks EXCEPT ![t] =
                        Send([task EXCEPT !.pc = "gtd_fqn"],
                             [via |-> "workspace", method |-> "CALL",
                              url |-> <<"get_table_fqn">>, headers |-> NoHeaders,
                              params |-> <<>>, json |-> <<>>, data |-> <<>>])]
        /\ blocking' = 0
        /\ UNCHANGED <<state, remote, call, ctor>>

\* table_fqn is there, or the capability raised: return TableDetail(...)
GTD_Fqn(t) ==
    \E f \in {"<fqn>", "<raised>"} :
        /\ CanRun(t)
        /\ tasks[t].pc = "gtd_fqn"
        /\ LET task == tasks[t]
               e == IF f = "<raised>" THEN "WorkspaceError"
                    ELSE StorageReadError(task.op, task.raw[1])
           IN IF e # ""
              THEN tasks' = [tasks EXCEPT ![t] = Fail(task, Raised(e, 0))]
              ELSE tasks' = [tasks EXCEPT ![t] =
                        [task EXCEPT !.pc = "done", !.result = <<task.raw[1]>>,
                                     !.outcome = Returned(JsonNothing)]]
        /\ UNCHANGED <<state, remote, blocking, call, ctor>>

---------------------------------------------------------------------------
(* The job read tools: search_jobs_by and get_job_detail, through the     *)
(* Job-Queue client of the facade.                                         *)

\* from_state, then the client's GET up to its await
JR_Start(t) ==
    LET client == FromState(state).jobs_queue_client
        Start(op, args, request) ==
            /\ CanRun(t)
            /\ tasks[t].pc = "idle"
            /\ tasks' = [tasks EXCEPT ![t] =
                    Send([@ EXCEPT !.op = op, !.pc = "jr_answer", !.args = args],
                         Via("jobs_queue_client", request))]
            /\ UNCHANGED <<state, remote, blocking, call, ctor>>
    IN \/ \E job_id \in JobIds :
            Start("get_job_detail", [job_id |-> job_id],
                  GetJobDetailRequest(client, job_id))
       \/ \E given \in {g \in SearchCalls :
                            /\ g.config_id = Omitted /\ g.limit = Omitted
                            /\ g.offset = Omitted /\ g.sort_by = Omitted
                            /\ g.sort_order = Omitted /\ g.status # PyList(<<>>)} :
            Start("search_jobs_by", SearchJobsByArgs(given),
                  SearchJobsByRequest(client, SearchJobsByArgs(given)))

\* the upstream answers the GET: the decoded body is handed back
JR_Answer(t) ==
    \E r \in Answers({NotJsonBody, EmptyListBody, ListBody, DocBody}) :
        /\ CanRun(t)
        /\ tasks[t].pc = "jr_answer"
        /\ LET task == Receive(tasks[t], r)
               o == RawResult(r)
           IN IF o.kind = "raise"
              THEN tasks' = [tasks EXCEPT ![t] = Fail(task, o)]
              ELSE tasks' = [tasks EXCEPT ![t] =
                        [task EXCEPT !.pc = "done", !.result = <<o.value>>,
                                     !.outcome = Returned(JsonNothing)]]
        /\ UNCHANGED <<state, remote, blocking, call, ctor>>

---------------------------------------------------------------------------
(* FacadeSpec: KeboolaClient(token, url), twice over, and calls through   *)
(* the service clients of a facade that was built                         *)

MaxConstructions == 2
MaxFacadeCalls == 1

NoCtor == [token |-> "", url |-> <<>>, attempts |-> 0, exc |-> "", built |-> <<>>,
           sent |-> <<>>]

\* Construct with the token verified against the Storage API while constructing
Construct_VerifyingToken ==
    /\ ctor.attempts < MaxConstructions
    /\ LET k == KeboolaClientInit(ctor.token, ctor.url)
       IN ctor' = [ctor EXCEPT !.attempts = @ + 1, !.exc = k.exc,
                               !.built = @ \o k.facade,
                               !.sent = IF k.exc = ""
                                        THEN Append(@, Via("storage_client",
                                                RawGet(k.facade[1].storage_client,
                                                       <<"tokens/verify">>, <<>>, <<>>)))
                                        ELSE @]
    /\ UNCHANGED <<state, tasks, remote, blocking, call>>

\* KeboolaClient(storage_api_token, storage_api_url)
Construct ==
    /\ ctor.attempts < MaxConstructions
    /\ LET k == KeboolaClientInit(ctor.token, ctor.url)
       IN ctor' = [ctor EXCEPT !.attempts = @ + 1, !.exc = k.exc,
                               !.built = @ \o k.facade]
    /\ UNCHANGED <<state, tasks, remote, blocking, call>>

\* a call through the Job-Queue or the AI-Service client of a built facade
FacadeCall ==
    \E i \in 1..Len(ctor.built), j \in JobIds, viaQueue \in BOOLEAN :
        /\ Len(ctor.sent) < MaxFacadeCalls
        /\ ctor' = [ctor EXCEPT !.sent = Append(@,
                IF viaQueue
                THEN Via("jobs_queue_client",
                         GetJobDetailRequest(ctor.built[i].jobs_queue_client, j))
                ELSE GetComponentDetailsRequest(ctor.built[i], "keboola.ex-db"))]
        /\ UNCHANGED <<state, tasks, remote, blocking, call>>

---------------------------------------------------------------------------
(* The specifications *)

TasksInit == [t \in TaskIds |-> IdleTask]

StateInit == [k \in {STATE_KEY} |-> TheFacade]

Init ==
    /\ state = StateInit
    /\ tasks = TasksInit
    /\ remote = {}
    /\ blocking = 0
    /\ call = IdleCall
    /\ ctor = NoCtor

Next ==
    \E t \in TaskIds :
        \/ GCD_Start(t)
        \/ GCD_Component(t)
        \/ GCD_Configuration(t)
        \/ GCD_Metadata(t)
        \/ CST_Start(t)
        \/ CST_Dialect(t)
        \/ CST_Post(t)
        \/ CST_Component(t)
        \/ CDA_Start(t)
        \/ CDA_Generate(t)
        \/ CDA_Post(t)
        \/ CDA_Component(t)
        \/ RCC_Start(t)
        \/ RTC_Start(t)
        \/ RC_Fetch(t)
        \/ DQ_Start(t)
        \/ DQ_Answer(t)
        \/ SR_Start(t)
        \/ SR_Answer(t)
        \/ GTD_Fqn(t)
        \/ JR_Start(t)
        \/ JR_Answer(t)

Spec == Init /\ [][Next]_vars

ClientSpec == Init /\ [][ClientNext]_vars

FacadeInit ==
    /\ state = StateInit
    /\ tasks = TasksInit
    /\ remote = {}
    /\ blocking = 0
    /\ call = IdleCall
    /\ ctor \in {[NoCtor EXCEPT !.token = k, !.url = u] : k \in ApiTokens, u \in Urls}

FacadeNext == Construct \/ FacadeCall

FacadeSpec == FacadeInit /\ [][FacadeNext]_vars

---------------------------------------------------------------------------
(* Properties of get_component_configuration_details (Spec) *)

IsGCD(t) == tasks[t].op = "get_component_configuration_details"

\* The i-th answer task t received is a 200 carrying a well-formed document
GotDocument(t, i) ==
    /\ Len(tasks[t].received) >= i
    /\ tasks[t].received[i].status = 200
    /\ tasks[t].received[i].body = DocBody

\* The i-th answer task t received is anything else
GotNoDocument(t, i) == Len(tasks[t].received) >= i /\ ~GotDocument(t, i)

\* The i-th fetch of task t failed: a status that is not 2xx, or no JSON in the body
FetchFailed(t, i) ==
    /\ Len(tasks[t].received) >= i
    /\ \/ tasks[t].received[i].status \notin 200..299
       \/ tasks[t].received[i].body = NotJsonBody

\* C1: get_component_configuration_details returns a composite only when the
\* component-details fetch and the configuration-body fetch both succeeded; when
\* either of them fails the invocation fails there, and when either brings
\* nothing the invocation never returns a composite and ends failed.
C1_CompositeOnlyAfterBothFetches ==
    \A t \in TaskIds :
        IsGCD(t) =>
            /\ tasks[t].result # <<>> =>
                /\ GotDocument(t, 1) /\ GotDocument(t, 2)
                /\ tasks[t].sent[1].via = "ai_service_client"
                /\ tasks[t].sent[2].via = "storage_client_sync"
                /\ tasks[t].outcome.kind = "return"
            /\ (FetchFailed(t, 1) \/ FetchFailed(t, 2)) =>
                /\ tasks[t].pc = "failed"
                /\ tasks[t].outcome.kind = "raise"
                /\ Len(tasks[t].received) <= 2
            /\ (GotNoDocument(t, 1) \/ GotNoDocument(t, 2)) =>
                /\ tasks[t].result = <<>>
                /\ tasks[t].pc \in {"failed", "gcd_metadata"}
                /\ tasks[t].pc = "gcd_metadata" => Len(tasks[t].received) = 2

\* One invocation returned its composite, another failed on the configuration body.
C1_Witness ==
    \E t, u \in TaskIds :
        /\ IsGCD(t) /\ tasks[t].pc = "done" /\ tasks[t].result # <<>>
        /\ IsGCD(u) /\ GotDocument(u, 1) /\ GotNoDocument(u, 2) /\ tasks[u].pc = "failed"

\* Both required fetches of task t brought their document and the metadata fetch
\* has returned an empty result: a 200 with [] or {}
GotEmptyMetadata(t) ==
    /\ IsGCD(t)
    /\ GotDocument(t, 1) /\ GotDocument(t, 2)
    /\ Len(tasks[t].received) = 3
    /\ tasks[t].received[3].status = 200
    /\ tasks[t].received[3].body \in {EmptyListBody, EmptyObjectBody}

\* C2: when both required fetches succeeded and the metadata fetch returns an
\* empty result, the tool returns a composite with empty metadata and raises
\* nothing; two invocations with the same component and the same answers hold
\* the same composite.
C2_EmptyMetadataComposite ==
    \A t \in TaskIds :
        GotEmptyMetadata(t) =>
            /\ tasks[t].pc = "done"
            /\ tasks[t].outcome.kind = "return"
            /\ Len(tasks[t].result) = 1
            /\ tasks[t].result[1].metadata.items = 0
            /\ tasks[t].result[1].metadata.keys = {}
            /\ tasks[t].result[1].metadata.type \in {"list", "object"}
            /\ \A u \in TaskIds :
                (/\ GotEmptyMetadata(u)
                 /\ tasks[u].args.component_id = tasks[t].args.component_id
                 /\ tasks[u].received = tasks[t].received)
                    => tasks[u].result = tasks[t].result

\* Two invocations got the same answers, the last one an empty metadata list.
C2_Witness ==
    \E t, u \in TaskIds :
        /\ t # u
        /\ GotEmptyMetadata(t) /\ GotEmptyMetadata(u)
        /\ tasks[t].received = tasks[u].received
        /\ tasks[t].received[3].body = EmptyListBody
        /\ tasks[t].pc = "done"

\* Both required fetches of task t brought their document and the metadata request
\* found nothing: an empty body, an empty result or a status that is not 2xx
MetadataFoundNothing(t) ==
    /\ IsGCD(t)
    /\ GotDocument(t, 1) /\ GotDocument(t, 2)
    /\ Len(tasks[t].received) = 3
    /\ \/ tasks[t].received[3].status \notin 200..299
       \/ tasks[t].received[3].body \in {NotJsonBody, EmptyListBody, EmptyObjectBody}

\* C3: a missing metadata lookup is never raised: whenever both required fetches
\* succeeded and the metadata request found nothing, empty answer or non-2xx
\* status alike, the tool returns the composite with the metadata left out.
C3_MissingMetadataNeverRaised ==
    \A t \in TaskIds :
        MetadataFoundNothing(t) =>
            /\ tasks[t].pc = "done"
            /\ tasks[t].outcome.kind = "return"
            /\ Len(tasks[t].result) = 1
            /\ ~JsonTruthy(tasks[t].result[1].metadata)

---------------------------------------------------------------------------
(* Properties of the raw transport client and the Job-Queue client (ClientSpec) *)

IsRawVerb == call.op \in {"get", "post", "put", "delete"}

VerbMethod ==
    CASE call.op = "get" -> "GET"
      [] call.op = "post" -> "POST"
      [] call.op = "put" -> "PUT"
      [] call.op = "delete" -> "DELETE"
      [] OTHER -> ""

\* One request went out for the call, and while the call lasts no other does
OneRequest ==
    /\ call.pc \in {"await", "done"} => Len(call.sent) = 1
    /\ call.pc = "done" => Len(call.received) = 1

\* C4 as stated: one call of a raw verb makes exactly one request; a status that is
\* not 2xx makes it fail with an error carrying that status, with no retry; a 2xx
\* status makes it return the parsed JSON body.
C4_AnySuccessReturnsParsedBody ==
    (IsRawVerb /\ call.pc = "done") =>
        /\ Len(call.sent) = 1
        /\ call.received[1].status \notin 200..299 =>
            call.outcome.kind = "raise" /\ call.outcome.status = call.received[1].status
        /\ call.received[1].status \in 200..299 => call.outcome.kind = "return"

\* C4 amended: one call of a raw verb makes exactly one request, of the verb's
\* method; a status that is not 2xx makes it fail with an error carrying that
\* status, with no retry; a 2xx status with a JSON body makes it return the parsed
\* body, and a 2xx status with a body that is not JSON makes it fail on decoding.
C4_OneRequestStatusDecides ==
    IsRawVerb =>
        /\ OneRequest
        /\ call.pc # "idle" => call.sent[1].method = VerbMethod
        /\ call.pc = "done" =>
            LET r == call.received[1]
            IN /\ r.status \notin 200..299 =>
                    /\ call.outcome.kind = "raise"
                    /\ call.outcome.exc = "HTTPStatusError"
                    /\ call.outcome.status = r.status
               /\ (r.status \in 200..299 /\ r.body # NotJsonBody) =>
                    /\ call.outcome.kind = "return"
                    /\ call.outcome.value.type \in {"list", "object"}
                    /\ call.outcome.value.type = "list" <=> r.body \in {EmptyListBody, ListBody}
                    /\ call.outcome.value.items > 0 <=> r.body = ListBody
                    /\ call.outcome.value.keys # {} <=> r.body = DocBody
               /\ (r.status \in 200..299 /\ r.body = NotJsonBody) =>
                    /\ call.outcome.kind = "raise"
                    /\ call.outcome.exc = "JSONDecodeError"

\* A DELETE was answered 204 with a JSON body and returned it.
C4_Witness ==
    /\ call.op = "delete"
    /\ call.pc = "done"
    /\ call.received[1].status = 204
    /\ call.received[1].body = EmptyObjectBody
    /\ call.outcome.kind = "return"

\* C5: a 404 answer to the request of get_job_detail ends the call in an error
\* carrying status 404, never in an empty or None result.
C5_JobDetailNotFoundRaises ==
    (call.op = "get_job_detail" /\ call.pc = "done" /\ call.received[1].status = 404) =>
        /\ call.outcome.kind = "raise"
        /\ call.outcome.exc = "HTTPStatusError"
        /\ call.outcome.status = 404

\* get_job_detail('job-1') was answered 404.
C5_Witness ==
    /\ call.op = "get_job_detail"
    /\ call.pc = "done"
    /\ call.args = <<"job-1">>
    /\ call.sent[1].url = TheClient.base_api_url \o <<"/", "jobs/", "job-1">>
    /\ call.received[1].status = 404

IsSearch == call.op = "search_jobs_by" /\ call.pc # "idle"

\* The query mapping that went out
SentParams == call.sent[1].params[1]

\* Key k of the query stands for argument arg, whose default is default: the key
\* is there exactly when the argument in force is not None, and carries it
KeyCarries(k, arg, default) ==
    LET v == IF arg = Omitted THEN default ELSE arg
    IN /\ k \in DOMAIN SentParams <=> v.tag # "None"
       /\ k \in DOMAIN SentParams => SentParams[k] = v

\* C6: search_jobs_by issues one GET to search/jobs whose query has exactly the
\* keys of the arguments that are not None, under the upstream names, each with
\* the value supplied or its default (limit 100, offset 0, sortBy startTime,
\* sortOrder desc), and no other key.
C6_SearchQueryIsTheNonNoneArguments ==
    IsSearch =>
        /\ Len(call.sent) = 1
        /\ call.sent[1].method = "GET"
        /\ call.sent[1].url = TheClient.base_api_url \o <<"/", "search/jobs">>
        /\ Len(call.sent[1].params) = 1
        /\ DOMAIN SentParams \subseteq
            {"componentId", "configId", "status", "limit", "offset", "sortBy", "sortOrder"}
        /\ KeyCarries("componentId", call.args.component_id, PyNone)
        /\ KeyCarries("configId", call.args.config_id, PyNone)
        /\ KeyCarries("status", call.args.status, PyNone)
        /\ KeyCarries("limit", call.args.limit, PyInt(100))
        /\ KeyCarries("offset", call.args.offset, PyInt(0))
        /\ KeyCarries("sortBy", call.args.sort_by, PyStr("startTime"))
        /\ KeyCarries("sortOrder", call.args.sort_order, PyStr("desc"))

\* search_jobs_by(component_id='ex-1', status=['success'], limit=10) sent
\* {componentId, status, limit, offset, sortBy, sortOrder}.
C6_Witness ==
    /\ IsSearch
    /\ call.args.component_id = PyStr("ex-1")
    /\ call.args.status = PyList(<<"success">>)
    /\ call.args.limit = PyInt(10)
    /\ call.args.config_id = Omitted
    /\ call.args.offset = Omitted
    /\ call.args.sort_by = Omitted
    /\ call.args.sort_order = Omitted
    /\ DOMAIN SentParams = {"componentId", "status", "limit", "offset", "sortBy", "sortOrder"}
    /\ SentParams["offset"] = PyInt(0)
    /\ SentParams["sortBy"] = PyStr("startTime")
    /\ SentParams["sortOrder"] = PyStr("desc")

\* An empty value: the empty string or the empty list
IsEmptyValue(v) == (v.tag = "str" /\ v.s = "") \/ (v.tag = "list" /\ v.l = <<>>)

\* C7 as stated: no key of the query sent by search_jobs_by carries a null or an
\* empty value.
C7_NoNullOrEmptyValue ==
    IsSearch => \A k \in DOMAIN SentParams :
        SentParams[k].tag # "None" /\ ~IsEmptyValue(SentParams[k])

\* C7 amended: no key of the query sent by search_jobs_by carries None, an argument
\* that is None is left out of the query, and an empty string or an empty list
\* given for component_id or status is sent as it is.
C7_NoNullValueEmptyKept ==
    IsSearch =>
        /\ \A k \in DOMAIN SentParams : SentParams[k].tag # "None"
        /\ call.args.component_id \in {Omitted, PyNone} => "componentId" \notin DOMAIN SentParams
        /\ call.args.sort_by = PyNone => "sortBy" \notin DOMAIN SentParams
        /\ call.args.sort_order = PyNone => "sortOrder" \notin DOMAIN SentParams
        /\ call.args.component_id = PyStr("") =>
            "componentId" \in DOMAIN SentParams /\ SentParams["componentId"] = PyStr("")
        /\ call.args.status = PyList(<<>>) =>
            "status" \in DOMAIN SentParams /\ SentParams["status"] = PyList(<<>>)

\* search_jobs_by(component_id='', status=[], sort_by=None) sent both empty values.
C7_Witness ==
    /\ IsSearch
    /\ call.args.component_id = PyStr("")
    /\ call.args.status = PyList(<<>>)
    /\ call.args.sort_by = PyNone
    /\ "status" \in DOMAIN SentParams
    /\ "sortBy" \notin DOMAIN SentParams

---------------------------------------------------------------------------
(* Properties of the facade's construction (FacadeSpec) *)

MarkerCount(url) == Cardinality({i \in 1..Len(url) : url[i] = "connection."})

\* The text of url after its first marker
AfterMarker(url) ==
    LET i == CHOOSE j \in 1..Len(url) :
                url[j] = "connection." /\ \A k \in 1..(j - 1) : url[k] # "connection."
    IN SubSeq(url, i + 1, Len(url))

\* The Storage root construction uses for url
StorageRoot(url) ==
    IF Len(url) > 0 /\ (url[1] = "http://" \/ url[1] = "https://")
    THEN url ELSE <<"https://">> \o url

\* C8: for a connection URL holding the marker exactly once, construction uses the
\* URL itself as Storage root when it starts with http:// or https:// and
\* https:// + URL otherwise, derives the Job-Queue root as https://queue. + the
\* text after the marker and the AI-Service root as https://ai. + that text;
\* constructing twice gives the same roots.
C8_RootsDerivedFromMarker ==
    (ctor.attempts >= 1 /\ MarkerCount(ctor.url) = 1) =>
        /\ ctor.exc = ""
        /\ Len(ctor.built) = ctor.attempts
        /\ \A i \in 1..Len(ctor.built) :
            /\ ctor.built[i].storage_client_sync.root_url = StorageRoot(ctor.url)
            /\ ctor.built[i].storage_client.base_api_url
                    = StorageRoot(ctor.url) \o <<"/v2/storage">>
            /\ ctor.built[i].jobs_queue_client.base_api_url
                    = <<"https://queue.">> \o AfterMarker(ctor.url)
            /\ ctor.built[i].ai_service_client.base_api_url
                    = <<"https://ai.">> \o AfterMarker(ctor.url)
        /\ \A i, j \in 1..Len(ctor.built) : ctor.built[i] = ctor.built[j]

\* http://connection.keboola.com was constructed from twice.
C8_Witness ==
    /\ ctor.url = <<"http://", "connection.", "keboola.com">>
    /\ ctor.attempts = 2
    /\ Len(ctor.built) = 2
    /\ ctor.built[2].jobs_queue_client.base_api_url = <<"https://queue.", "keboola.com">>

NoMarker(url) == \A i \in 1..Len(url) : url[i] # "connection."

\* C9 as stated: with the marker missing from the URL, construction still completes
\* and yields a facade.
C9_ConstructionCompletesWithoutMarker ==
    (ctor.attempts >= 1 /\ NoMarker(ctor.url)) => (ctor.exc = "" /\ ctor.built # <<>>)

\* C9 amended: with the marker missing from the URL, construction itself fails with
\* an IndexError and yields no facade, so no request is ever made through a
\* Job-Queue or AI-Service client derived from that URL.
C9_ConstructionFailsWithoutMarker ==
    (ctor.attempts >= 1 /\ NoMarker(ctor.url)) =>
        /\ ctor.exc = "IndexError"
        /\ ctor.built = <<>>
        /\ ctor.sent = <<>>

\* Construction from https://eu.keboola.com was tried twice.
C9_Witness ==
    /\ ctor.url = <<"https://", "eu.", "keboola.com">>
    /\ ctor.attempts = 2
    /\ ctor.exc = "IndexError"

---------------------------------------------------------------------------
(* Properties of the create tools (Spec) *)

IsCreate(t) == tasks[t].op \in {"create_sql_transformation", "create_data_app"}

CreatedComponentId(t) ==
    IF tasks[t].op = "create_data_app" THEN "keboola.app-data-app"
    ELSE IF tasks[t].dialect = "snowflake" THEN "keboola.snowflake-transformation"
    ELSE "keboola.google-bigquery-transformation"

\* The configuration POST of task t was answered 2xx: the upstream created it
PostSucceeded(t) ==
    /\ IsCreate(t)
    /\ Len(tasks[t].received) >= 1
    /\ tasks[t].received[1].status \in 200..299

MutatingSent(t) ==
    {i \in 1..Len(tasks[t].sent) : tasks[t].sent[i].method \in {"POST", "PUT", "DELETE"}}

\* C10: when the configuration POST of create_sql_transformation or create_data_app
\* succeeded remotely and a later local step fails, the tool ends in an error, has
\* sent no DELETE nor any other mutating request besides that POST, and the
\* configuration it created is still there.
C10_NoRollbackAfterCreate ==
    \A t \in TaskIds :
        PostSucceeded(t) =>
            /\ [id |-> t, component_id |-> CreatedComponentId(t)] \in remote
            /\ Cardinality(MutatingSent(t)) = 1
            /\ \A i \in MutatingSent(t) : tasks[t].sent[i].method = "POST"
            /\ tasks[t].pc = "failed" =>
                /\ tasks[t].outcome.kind = "raise"
                /\ tasks[t].result = <<>>

\* A transformation and a data app were created remotely, and both tools failed
\* afterwards: one on the component lookup, one on the POST's answer.
C10_Witness ==
    \E t, u \in TaskIds :
        /\ tasks[t].op = "create_sql_transformation" /\ PostSucceeded(t)
        /\ tasks[t].pc = "failed" /\ Len(tasks[t].received) = 2
        /\ tasks[u].op = "create_data_app" /\ PostSucceeded(u)
        /\ tasks[u].pc = "failed" /\ Len(tasks[u].received) = 1
        /\ Cardinality(remote) = 2

\* The configuration POST of task t failed: a status that is not 2xx, or a body
\* that is no JSON
PostFailed(t) ==
    /\ IsCreate(t)
    /\ Len(tasks[t].received) >= 1
    /\ \/ tasks[t].received[1].status \notin 200..299
       \/ tasks[t].received[1].body = NotJsonBody

PostsSent(t) == {i \in 1..Len(tasks[t].sent) : tasks[t].sent[i].method = "POST"}

\* C11: when the configuration POST of create_sql_transformation or create_data_app
\* fails, the error of the POST itself reaches the caller, one POST was attempted
\* and nothing was sent after it: no component-detail fetch, no other request.
C11_PostFailureReraisedUnchanged ==
    \A t \in TaskIds :
        PostFailed(t) =>
            LET r == tasks[t].received[1]
            IN /\ tasks[t].pc = "failed"
               /\ tasks[t].outcome.kind = "raise"
               /\ r.status \notin 200..299 =>
                    /\ tasks[t].outcome.exc = "HTTPStatusError"
                    /\ tasks[t].outcome.status = r.status
               /\ r.status \in 200..299 => tasks[t].outcome.exc = "JSONDecodeError"
               /\ Cardinality(PostsSent(t)) = 1
               /\ PostsSent(t) = {Len(tasks[t].sent)}
               /\ Len(tasks[t].received) = 1
               /\ \A i \in 1..Len(tasks[t].sent) : tasks[t].sent[i].via # "ai_service_client"
               /\ tasks[t].result = <<>>

\* The POST of a transformation was refused with 404 and the POST of a data app
\* was answered without JSON; both tools have failed.
C11_Witness ==
    \E t, u \in TaskIds :
        /\ tasks[t].op = "create_sql_transformation" /\ PostFailed(t)
        /\ tasks[t].received[1].status = 404 /\ tasks[t].pc = "failed"
        /\ tasks[u].op = "create_data_app" /\ PostFailed(u)
        /\ tasks[u].received[1].status = 200 /\ tasks[u].pc = "failed"

IsCST(t) == tasks[t].op = "create_sql_transformation"

\* The dialect resolution of task t failed
DialectFailed(t) ==
    IsCST(t) /\ tasks[t].dialect \in {"<no workspace>", "<unsupported backend>"}

\* C12: create_sql_transformation issues its POST only after the dialect was
\* resolved and mapped to a component id; when the dialect resolution fails the
\* tool fails and no mutating request is sent and nothing is created remotely.
C12_PostOnlyAfterDialect ==
    \A t \in TaskIds :
        IsCST(t) =>
            /\ \A i \in MutatingSent(t) :
                /\ i = 2
                /\ tasks[t].sent[1].via = "workspace"
                /\ tasks[t].dialect \in {"snowflake", "bigquery"}
                /\ tasks[t].sent[i].url[9] \in {"keboola.snowflake-transformation",
                                               "keboola.google-bigquery-transformation"}
            /\ DialectFailed(t) =>
                /\ tasks[t].pc = "failed"
                /\ tasks[t].outcome.kind = "raise"
                /\ MutatingSent(t) = {}
                /\ Len(tasks[t].sent) = 1
                /\ \A c \in remote : c.id # t

\* One invocation failed for want of a workspace, another posted after resolving
\* snowflake.
C12_Witness ==
    \E t, u \in TaskIds :
        /\ DialectFailed(t) /\ tasks[t].dialect = "<no workspace>" /\ tasks[t].pc = "failed"
        /\ IsCST(u) /\ tasks[u].dialect = "snowflake" /\ MutatingSent(u) = {2}

\* The endpoint of the configurations of a component, under the storage root
ConfigsUrl(component_id) ==
    <<"https://", "connection.", "keboola.com", "/v2/storage", "/",
      "branch/", "default", "/components/", component_id, "/configs">>

\* C13: create_sql_transformation posts to branch/{branch_id}/components/{id}/configs
\* with the id fixed by the dialect, and the body carries the given name and
\* description, the statements as given and the output tables as given.
C13_PostCarriesStatementsVerbatim ==
    \A t \in TaskIds :
        (IsCST(t) /\ Len(tasks[t].sent) >= 2) =>
            LET post == tasks[t].sent[2]
                a == tasks[t].args
            IN /\ post.method = "POST"
               /\ post.via = "storage_client"
               /\ tasks[t].dialect = "snowflake" =>
                    post.url = ConfigsUrl("keboola.snowflake-transformation")
               /\ tasks[t].dialect = "bigquery" =>
                    post.url = ConfigsUrl("keboola.google-bigquery-transformation")
               /\ Len(post.json) = 1 /\ post.data = <<>>
               /\ DOMAIN post.json[1] = {"name", "description",
                                         "configuration.parameters.statements",
                                         "configuration.storage.output.tables"}
               /\ post.json[1]["name"] = PyStr(a.name)
               /\ post.json[1]["description"] = PyStr(a.description)
               /\ post.json[1]["configuration.parameters.statements"].l = a.sql_statements
               /\ post.json[1]["configuration.storage.output.tables"].l = a.created_table_names

\* The demo transformation was posted for snowflake and a two-statement one for
\* bigquery.
C13_Witness ==
    \E t, u \in TaskIds :
        /\ IsCST(t) /\ Len(tasks[t].sent) >= 2 /\ tasks[t].dialect = "snowflake"
        /\ tasks[t].args.name = "demo"
        /\ IsCST(u) /\ Len(tasks[u].sent) >= 2 /\ tasks[u].dialect = "bigquery"
        /\ Len(tasks[u].args.sql_statements) = 2

IsCDA(t) == tasks[t].op = "create_data_app"

\* Task t was called with a script: a list with at least one line
ScriptSupplied(t) ==
    IsCDA(t) /\ tasks[t].args.script # <<>> /\ tasks[t].args.script[1] # <<>>

GenerationsSent(t) ==
    {i \in 1..Len(tasks[t].sent) : tasks[t].sent[i].via = "ctx.generate"}

\* C14: when create_data_app is called with a script, the generation is never
\* invoked in that run, and the one POST carries a configuration whose
\* parameters.script is the script given, line for line, and whose parameters.id
\* is the slug given.
C14_SuppliedScriptPostedAsGiven ==
    \A t \in TaskIds :
        ScriptSupplied(t) =>
            /\ GenerationsSent(t) = {}
            /\ tasks[t].generated = <<>>
            /\ PostsSent(t) = {1}
            /\ LET post == tasks[t].sent[1]
               IN /\ post.via = "storage_client"
                  /\ post.url = ConfigsUrl("keboola.app-data-app")
                  /\ Len(post.json) = 1
                  /\ post.json[1]["configuration.parameters.script"].l
                        = tasks[t].args.script[1]
                  /\ post.json[1]["configuration.parameters.id"] = PyStr(tasks[t].args.slug)

\* A data app with a two-line script went through its POST and was returned.
C14_Witness ==
    \E t \in TaskIds :
        /\ ScriptSupplied(t)
        /\ Len(tasks[t].args.script[1]) = 2
        /\ tasks[t].pc = "done"

\* Task t was called without a script (None or an empty list)
NoScriptSupplied(t) == IsCDA(t) /\ ~ScriptSupplied(t)

\* The generation of task t gave back no text: None, something that is no str,
\* or the empty str
GenerationGaveNoText(t) ==
    /\ NoScriptSupplied(t)
    /\ Len(tasks[t].generated) = 1
    /\ \/ tasks[t].generated[1].tag # "str"
       \/ tasks[t].generated[1].l = <<"">>

\* C15: when create_data_app is called without a script, one generation call is
\* made and it is over before the POST is issued; when it gives back no text the
\* tool fails with a local error and no POST is ever issued.
C15_GenerationBeforePost ==
    \A t \in TaskIds :
        NoScriptSupplied(t) =>
            /\ GenerationsSent(t) = {1}
            /\ PostsSent(t) \subseteq {2}
            /\ PostsSent(t) # {} =>
                /\ Len(tasks[t].generated) = 1
                /\ tasks[t].generated[1].tag = "str"
            /\ GenerationGaveNoText(t) =>
                /\ tasks[t].pc = "failed"
                /\ tasks[t].outcome.kind = "raise"
                /\ tasks[t].outcome.exc = "ValueError"
                /\ MutatingSent(t) = {}
                /\ Len(tasks[t].sent) = 1
                /\ \A c \in remote : c.id # t

\* One invocation failed on a generation that gave a number, another posted the
\* script made of a generated text.
C15_Witness ==
    \E t, u \in TaskIds :
        /\ GenerationGaveNoText(t) /\ tasks[t].generated[1].tag = "int"
        /\ tasks[t].pc = "failed"
        /\ NoScriptSupplied(u) /\ PostsSent(u) = {2}
        /\ tasks[u].script = <<"st.write(1)">>

---------------------------------------------------------------------------
(* Properties of the retrieval tools (Spec) *)

IsRCC(t) == tasks[t].op = "retrieve_components_configurations"

IsRTC(t) == tasks[t].op = "retrieve_transformations_configurations"

\* The i-th request of task t fetches the configurations of one component id, with
\* no type filter in it
FetchesById(t, i, component_id) ==
    /\ tasks[t].sent[i].method = "GET"
    /\ tasks[t].sent[i].url = ConfigsUrl(component_id)
    /\ tasks[t].sent[i].params = <<>>

\* The i-th request of task t lists the configurations of the component types
\* in types
ListsByType(t, i, types) ==
    /\ tasks[t].sent[i].method = "GET"
    /\ Len(tasks[t].sent[i].url) = 8
    /\ Len(tasks[t].sent[i].params) = 1
    /\ tasks[t].sent[i].params[1]["componentType"].s \in types

\* C16: a retrieval follows one strategy per call. With ids given it retrieves by
\* ids, and the types given change neither the requests nor the result; only with
\* no ids does it retrieve by types. retrieve_transformations_configurations does
\* the same, with the one type transformation.
C16_IdsWinOverTypes ==
    \A t \in TaskIds :
        (IsRCC(t) \/ IsRTC(t)) =>
            LET ids == tasks[t].args.component_ids
                types == tasks[t].args.component_types
            IN /\ tasks[t].strategy \in {"by_ids", "by_types"}
               /\ tasks[t].strategy = "by_ids" <=> ids # <<>>
               /\ ids # <<>> =>
                    /\ Len(tasks[t].sent) <= Len(ids)
                    /\ \A i \in 1..Len(tasks[t].sent) : FetchesById(t, i, ids[i])
                    /\ \A u \in TaskIds :
                        (/\ tasks[u].op = tasks[t].op
                         /\ tasks[u].args.component_ids = ids
                         /\ tasks[u].received = tasks[t].received)
                            => /\ tasks[u].sent = tasks[t].sent
                               /\ tasks[u].result = tasks[t].result
                               /\ tasks[u].outcome = tasks[t].outcome
               /\ (ids = <<>> /\ IsRCC(t)) =>
                    \A i \in 1..Len(tasks[t].sent) :
                        ListsByType(t, i, IF types = <<>> THEN Range(ComponentTypes)
                                          ELSE Range(types))
               /\ (ids = <<>> /\ IsRTC(t)) =>
                    \A i \in 1..Len(tasks[t].sent) : ListsByType(t, i, {"transformation"})

\* Two retrievals of the same two ids, one with a type filter and one without,
\* got the same answers and returned.
C16_Witness ==
    \E t, u \in TaskIds :
        /\ IsRCC(t) /\ IsRCC(u)
        /\ Len(tasks[t].args.component_ids) = 2
        /\ tasks[u].args.component_ids = tasks[t].args.component_ids
        /\ tasks[t].args.component_types = <<>>
        /\ tasks[u].args.component_types = <<"writer", "extractor">>
        /\ tasks[t].pc = "done" /\ tasks[u].pc = "done"
        /\ tasks[t].received = tasks[u].received

---------------------------------------------------------------------------
(* Properties of the requests of the raw transport client (ClientSpec) *)

\* The name of a header without regard to case, as HTTP compares header names
HeaderNameLower(k) ==
    CASE k = "X-StorageApi-Token" -> "x-storageapi-token"
      [] k = "Content-Type" -> "content-type"
      [] k = "Accept-encoding" -> "accept-encoding"
      [] k = "Accept-Encoding" -> "accept-encoding"
      [] k = "Accept" -> "accept"
      [] OTHER -> k

Carries(headers, name, value) ==
    \E k \in DOMAIN headers : HeaderNameLower(k) = name /\ headers[k] = value

\* The header overrides of the call: the headers argument of a raw verb, none for
\* the methods of the service client
HeaderOverrides ==
    IF ~IsRawVerb THEN <<>> ELSE call.args[Len(call.args)]

Overridden(name) ==
    /\ HeaderOverrides # <<>>
    /\ \E k \in DOMAIN HeaderOverrides[1] : HeaderNameLower(k) = name

BodyArgument == OrEmpty(call.args[2])

\* C18: the raw transport client encodes the body of a PUT the way it encodes the
\* body of a POST, as a JSON body; a GET sends its parameters as query parameters
\* and a DELETE sends no body.
C18_PutBodyIsJsonLikePost ==
    (IsRawVerb /\ call.pc # "idle") =>
        LET request == call.sent[1]
        IN /\ call.op \in {"post", "put"} =>
                /\ request.json = <<BodyArgument>>
                /\ request.data = <<>>
                /\ request.params = <<>>
           /\ call.op = "get" =>
                /\ request.params = call.args[2]
                /\ request.json = <<>> /\ request.data = <<>>
           /\ call.op = "delete" =>
                /\ request.params = <<>>
                /\ request.json = <<>> /\ request.data = <<>>

---------------------------------------------------------------------------
(* Properties of the facade (FacadeSpec, Spec) *)

\* f is a facade with its four client handles, each with a root
HasFourHandles(f) ==
    /\ {"storage_client", "jobs_queue_client", "ai_service_client", "storage_client_sync"}
            \subseteq DOMAIN f
    /\ Len(f.storage_client.base_api_url) > 0
    /\ Len(f.jobs_queue_client.base_api_url) > 0
    /\ Len(f.ai_service_client.base_api_url) > 0
    /\ Len(f.storage_client_sync.root_url) > 0

\* C19: constructing the facade issues no network request: the requests sent so
\* far stay as they were, and a construction that completes leaves a facade with
\* all four client handles.
C19_ConstructionSendsNothing ==
    [][ctor'.attempts # ctor.attempts =>
            /\ ctor'.sent = ctor.sent
            /\ tasks' = tasks /\ call' = call /\ remote' = remote
            /\ ctor'.exc = "" =>
                /\ Len(ctor'.built) = Len(ctor.built) + 1
                /\ HasFourHandles(ctor'.built[Len(ctor'.built)])]_vars

\* A facade was built, a request went through it, and a second one was built.
C19_Witness ==
    /\ ctor.attempts = 2
    /\ ctor.exc = ""
    /\ Len(ctor.built) = 2
    /\ Len(ctor.sent) = 1
    /\ HasFourHandles(ctor.built[2])

\* C20: the facade is never mutated after construction: whatever the tool
\* invocations do, together or one after the other, ending well or not, the
\* session state holds the one key sapi_client with the facade as constructed:
\* its token, its four handles, their roots and their default headers.
C20_FacadeNeverMutated ==
    /\ DOMAIN state = {"sapi_client"}
    /\ LET f == state["sapi_client"]
       IN /\ f.token = "token-A"
          /\ HasFourHandles(f)
          /\ f.storage_client_sync =
                [root_url |-> <<"https://", "connection.", "keboola.com">>,
                 token |-> "token-A", branch_id |-> "default"]
          /\ f.storage_client.base_api_url =
                <<"https://", "connection.", "keboola.com", "/v2/storage">>
          /\ f.jobs_queue_client.base_api_url = <<"https://queue.", "keboola.com">>
          /\ f.ai_service_client.base_api_url = <<"https://ai.", "keboola.com">>
          /\ \A h \in {"storage_client", "jobs_queue_client", "ai_service_client"} :
                f[h].headers = DefaultHeaders("token-A")

\* Two invocations ran side by side, one returned and one failed, and a third
\* request of the first went through the facade.
C20_Witness ==
    \E t, u \in TaskIds :
        /\ t # u
        /\ tasks[t].pc = "done" /\ Len(tasks[t].sent) = 3
        /\ tasks[u].pc = "failed" /\ Len(tasks[u].sent) >= 1
        /\ tasks[u].op = "create_data_app"

---------------------------------------------------------------------------
(* Properties of the documentation query (Spec) *)

IsDQ(t) == tasks[t].op = "docs_query"

\* The POST of task t was answered 2xx with a JSON document that has the keys
AnsweredWith(t, bodies) ==
    /\ IsDQ(t)
    /\ Len(tasks[t].received) = 1
    /\ tasks[t].received[1].status \in 200..299
    /\ tasks[t].received[1].body \in bodies

\* C21: docs_question issues one POST to docs/question with the body {query}; when
\* the answer has a text the result holds that text and the source URLs of the
\* answer, or an empty list when it has none; when the answer cannot be mapped
\* the call fails with a validation error; docs_query hands back the same text and
\* source URLs.
C21_DocsQuestionMapsTheAnswer ==
    \A t \in TaskIds :
        IsDQ(t) =>
            /\ Len(tasks[t].sent) = 1
            /\ tasks[t].sent[1].method = "POST"
            /\ tasks[t].sent[1].url = <<"https://ai.", "keboola.com", "/", "docs/question">>
            /\ tasks[t].sent[1].json = <<[k \in {"query"} |-> PyStr(tasks[t].args.query)]>>
            /\ tasks[t].sent[1].data = <<>>
            /\ AnsweredWith(t, {TextBody, TextSourcesBody}) =>
                /\ tasks[t].pc = "done"
                /\ tasks[t].raw[1].text = "Use the Storage API."
                /\ tasks[t].raw[1].source_urls =
                        IF tasks[t].received[1].body = TextSourcesBody
                        THEN <<"https://help.keboola.com/storage",
                               "https://developers.keboola.com">>
                        ELSE <<>>
                /\ tasks[t].result[1].text = tasks[t].raw[1].text
                /\ tasks[t].result[1].source_urls = tasks[t].raw[1].source_urls
            /\ AnsweredWith(t, {EmptyObjectBody, EmptyListBody, SourcesBody}) =>
                /\ tasks[t].pc = "failed"
                /\ tasks[t].outcome.kind = "raise"
                /\ tasks[t].outcome.exc = "ValidationError"
                /\ tasks[t].result = <<>>

\* One query was answered with a text and no source URLs, another with source URLs
\* and no text.
C21_Witness ==
    \E t, u \in TaskIds :
        /\ AnsweredWith(t, {TextBody}) /\ tasks[t].pc = "done"
        /\ tasks[t].result[1].source_urls = <<>>
        /\ AnsweredWith(u, {SourcesBody}) /\ tasks[u].pc = "failed"

---------------------------------------------------------------------------
(* Properties of the scheduling of concurrent invocations (Spec) *)

\* Task t has issued a call whose response it has not yet got
Waiting(t) == tasks[t].pc \notin {"idle", "done", "failed"}

\* Task t has not run to its end
Unfinished(t) == tasks[t].pc \notin {"done", "failed"}

\* C22: every network call of a tool is a suspension point: while one invocation
\* waits for the response of any of its calls, the configuration-body fetch of
\* get_component_configuration_details and the bucket fetch of get_bucket_detail
\* included, the loop can run every other invocation that has not finished.
C22_EveryNetworkCallSuspends ==
    \A t, u \in TaskIds :
        (t # u /\ Waiting(t) /\ Unfinished(u)) => CanRun(u)

---------------------------------------------------------------------------
(* Properties of the derived roots with a repeated marker (FacadeSpec) *)

\* C23: for a connection URL holding the marker, once or more than once, the
\* Job-Queue root is https://queue. followed by the whole text after the first
\* marker, and the AI-Service root is https://ai. followed by that text.
C23_RootsKeepTheWholeRemainder ==
    (ctor.attempts >= 1 /\ MarkerCount(ctor.url) >= 1) =>
        /\ ctor.exc = ""
        /\ Len(ctor.built) = ctor.attempts
        /\ \A i \in 1..Len(ctor.built) :
            /\ ctor.built[i].jobs_queue_client.base_api_url
                    = <<"https://queue.">> \o AfterMarker(ctor.url)
            /\ ctor.built[i].ai_service_client.base_api_url
                    = <<"https://ai.">> \o AfterMarker(ctor.url)

---------------------------------------------------------------------------
(* Properties of the order of an invocation's requests (Spec) *)

\* The answers task t has got: those of the upstream, of the dialect lookup and of
\* the generation
Answered(t) ==
    Len(tasks[t].received) + Len(tasks[t].generated)
        + (IF tasks[t].dialect # "" THEN 1 ELSE 0)

\* The calls of task t that are out and not answered
Outstanding(t) == Len(tasks[t].sent) - Answered(t)

\* The i-th answer task t received is a 2xx carrying JSON
ReturnedSuccessfully(t, i) ==
    /\ Len(tasks[t].received) >= i
    /\ tasks[t].received[i].status \in 200..299
    /\ tasks[t].received[i].body # NotJsonBody

\* C24: an invocation of get_component_configuration_details, of
\* create_sql_transformation or of create_data_app has at most one call out at any
\* time; get_component_configuration_details asks for the component details, then
\* for the configuration body, then for the configuration metadata, each only
\* after the one before has returned successfully.
C24_RequestsStrictlySequential ==
    \A t \in TaskIds :
        (IsGCD(t) \/ IsCST(t) \/ IsCDA(t)) =>
            /\ Outstanding(t) \in {0, 1}
            /\ Outstanding(t) = 1 <=> Waiting(t)
            /\ IsGCD(t) =>
                /\ Len(tasks[t].sent) \in 1..3
                /\ tasks[t].sent[1].via = "ai_service_client"
                /\ tasks[t].sent[1].url
                        = <<"https://ai.", "keboola.com", "/", "docs/components/",
                            tasks[t].args.component_id>>
                /\ Len(tasks[t].sent) >= 2 =>
                    /\ ReturnedSuccessfully(t, 1)
                    /\ tasks[t].sent[2].via = "storage_client_sync"
                    /\ tasks[t].sent[2].url[Len(tasks[t].sent[2].url)]
                            = tasks[t].args.configuration_id
                /\ Len(tasks[t].sent) >= 3 =>
                    /\ ReturnedSuccessfully(t, 2)
                    /\ tasks[t].sent[3].via = "storage_client"
                    /\ tasks[t].sent[3].url[Len(tasks[t].sent[3].url)] = "/metadata"

\* One invocation of get_component_configuration_details made its three requests
\* and returned while a create_data_app, having generated its script, waits for
\* the answer to its POST.
C24_Witness ==
    \E t, u \in TaskIds :
        /\ IsGCD(t) /\ tasks[t].pc = "done" /\ Len(tasks[t].sent) = 3
        /\ IsCDA(u) /\ tasks[u].pc = "cda_post" /\ Len(tasks[u].sent) = 2
        /\ Outstanding(u) = 1

---------------------------------------------------------------------------
(* Properties of create_data_app called with an empty script (Spec) *)

\* The generation of task t gave back a text
GenerationGaveText(t) ==
    /\ NoScriptSupplied(t)
    /\ Len(tasks[t].generated) = 1
    /\ tasks[t].generated[1].tag = "str"
    /\ tasks[t].generated[1].l # <<"">>

\* The lines of code among lines, stripped: what is neither blank nor a code fence
CodeLines(lines) ==
    [i \in 1..Cardinality({j \in 1..Len(lines) : lines[j] = " st.write(1) "}) |->
        "st.write(1)"]

\* C25: create_data_app called with an empty script list behaves as when called
\* with no script: the generation is invoked once, and when it gives a text the
\* POST carries as parameters.script the generated lines, none at all when the
\* text holds only blank and code-fence lines; two invocations that differ only
\* in None against the empty list make the same requests, one by one.
C25_EmptyScriptIsAbsentScript ==
    \A t \in TaskIds :
        NoScriptSupplied(t) =>
            /\ GenerationsSent(t) = {1}
            /\ GenerationGaveText(t) =>
                /\ PostsSent(t) = {2}
                /\ tasks[t].sent[2].json[1]["configuration.parameters.script"]
                        = PyList(CodeLines(tasks[t].generated[1].l))
                /\ tasks[t].sent[2].json[1]["configuration.parameters.dataApp.script"]
                        = PyList(CodeLines(tasks[t].generated[1].l))
            /\ \A u \in TaskIds :
                (/\ NoScriptSupplied(u)
                 /\ [tasks[u].args EXCEPT !.script = <<>>]
                        = [tasks[t].args EXCEPT !.script = <<>>]
                 /\ tasks[u].generated = tasks[t].generated)
                    => \A i \in (1..Len(tasks[u].sent)) \cap (1..Len(tasks[t].sent)) :
                            tasks[u].sent[i] = tasks[t].sent[i]

\* A data app called with the empty list, whose generation gave only a code fence
\* and a blank line, posted an empty script and was returned, next to one called
\* with None whose generation gave the same text.
C25_Witness ==
    \E t, u \in TaskIds :
        /\ IsCDA(t) /\ tasks[t].args.script = << <<>> >>
        /\ GenerationGaveText(t)
        /\ tasks[t].generated[1].l = <<"  <fence>python", "">>
        /\ tasks[t].sent[2].json[1]["configuration.parameters.script"] = PyList(<<>>)
        /\ tasks[t].pc = "done"
        /\ IsCDA(u) /\ tasks[u].args.script = <<>>
        /\ tasks[u].generated = tasks[t].generated
        /\ Len(tasks[u].sent) >= 2

---------------------------------------------------------------------------
(* Properties of the read tools (Spec) *)

ReadTools ==
    {"get_component_configuration_details", "retrieve_components_configurations",
     "retrieve_transformations_configurations", "search_jobs_by", "get_job_detail",
     "get_bucket_detail", "retrieve_buckets", "get_table_detail",
     "retrieve_bucket_tables"}

IsRead(t) == tasks[t].op \in ReadTools

\* C26: a read tool never issues a POST, a PUT or a DELETE: each request it makes
\* of the upstream is a GET, whether it returns or fails, nothing the upstream
\* holds was created by it, and as long as only read tools have been invoked the
\* upstream holds what it held at the start.
C26_ReadToolsOnlyGet ==
    /\ \A t \in TaskIds :
        IsRead(t) =>
            /\ MutatingSent(t) = {}
            /\ \A i \in 1..Len(tasks[t].sent) :
                tasks[t].sent[i].via # "workspace" =>
                    /\ tasks[t].sent[i].method = "GET"
                    /\ tasks[t].sent[i].json = <<>>
                    /\ tasks[t].sent[i].data = <<>>
            /\ \A c \in remote : c.id # t
    /\ (\A t \in TaskIds : IsRead(t) \/ tasks[t].pc = "idle") => remote = {}

\* get_table_detail went through its two calls and returned, and a job search
\* that passed a component filter was refused by the upstream.
C26_Witness ==
    \E t, u \in TaskIds :
        /\ tasks[t].op = "get_table_detail" /\ tasks[t].pc = "done"
        /\ Len(tasks[t].sent) = 2
        /\ tasks[u].op = "search_jobs_by" /\ tasks[u].pc = "failed"
        /\ tasks[u].received[1].status = 404
        /\ "componentId" \in DOMAIN tasks[u].sent[1].params[1]
        /\ remote = {}

=============================================================================
